---- MODULE Spec2Model ----
(***************************************************************************)
(* The Stream dialect canonicalization patterns of                         *)
(* iree/compiler/Dialect/Stream/IR/StreamOpFolders.cpp as rewrites of a    *)
(* small SSA IR.                                                           *)
(*                                                                         *)
(* ops    : op id -> operation record (kind "none" marks a free id)        *)
(* blocks : block key -> the ordered op ids of the block.  Keys 1..NBlocks *)
(*          are the blocks of the function (1 is the entry block and       *)
(*          branches to 2 and 3); key NBlocks + e is the single block of   *)
(*          the region of op e.                                            *)
(* last   : the last pattern invocation: pattern, root op, the            *)
(*          LogicalResult it returned, the sink target (0 if none) and the *)
(*          parity of the number of successful rewrites so far.            *)
(* created: the number of ops the rewrites have created so far.            *)
(*                                                                         *)
(* A value is <<o, j>>: o > 0 is result j of op o (j = 0 is the timepoint  *)
(* result of an execute, immediate or join op, j >= 1 the resource         *)
(* results); o = 0 is function argument j; o < 0 is block argument j of    *)
(* the region of op -o.  Index values (sizes, offsets) are uniqued         *)
(* constants and are modelled by their number.                             *)
(***************************************************************************)
EXTENDS Integers, Sequences, FiniteSets, TLC

VARIABLES ops, blocks, last, created

vars == <<ops, blocks, last, created>>

\* Bounds of the model: the number of op ids (live ops at any one time) and
\* the number of ops the rewrites of one run may create.
MaxOps == 11

MaxCreated == 3

NBlocks == 3

\* The size in bytes of the largest resource of the inputs.
MaxSize == 3

OpIds == 1..MaxOps

BlockKeys == 1..(NBlocks + MaxOps)

Body(e) == NBlocks + e

-----------------------------------------------------------------------------
(* Operation records *)

Op(kind, operands, tied, life, aff, tps, attr) ==
  [kind |-> kind, operands |-> operands, tied |-> tied, life |-> life,
   aff |-> aff, tps |-> tps, attr |-> attr]

None == Op("none", <<>>, <<>>, <<>>, "", <<>>, <<>>)

Immediate == Op("timepoint.immediate", <<>>, <<>>, <<>>, "", <<>>, <<>>)

IR(o, b) == [ops |-> o, blocks |-> b]

Cur == IR(ops, blocks)

Live(ir) == {i \in OpIds : ir.ops[i].kind # "none"}

Range(s) == {s[i] : i \in 1..Len(s)}

\* Lifetimes of the function arguments: argument 1 is an external resource,
\* argument 2 a constant one; arguments 11 and 12 are timepoints.
ArgLife(j) == IF j = 2 THEN "constant" ELSE "external"

RECURSIVE LifeOf(_, _)
LifeOf(ir, v) ==
  IF v[1] = 0 THEN ArgLife(v[2])
  ELSE IF v[1] > 0 THEN ir.ops[v[1]].life[v[2]]
  ELSE LifeOf(ir, ir.ops[-v[1]].operands[v[2]])

-----------------------------------------------------------------------------
(* Block structure: Operation::getBlock, isBeforeInBlock, moveBefore,      *)
(* erase, and insertion at the rewriter's insertion point.                 *)

BlockOf(ir, i) == CHOOSE b \in BlockKeys : i \in Range(ir.blocks[b])

PosIn(s, i) == CHOOSE p \in 1..Len(s) : s[p] = i

Pos(ir, i) == PosIn(ir.blocks[BlockOf(ir, i)], i)

IsBeforeInBlock(ir, a, b) == Pos(ir, a) < Pos(ir, b)

Terminator(ir, b) == ir.blocks[b][Len(ir.blocks[b])]

Without(s, i) == SelectSeq(s, LAMBDA x : x # i)

InsertAt(s, p, i) == SubSeq(s, 1, p - 1) \o <<i>> \o SubSeq(s, p, Len(s))

Detach(ir, i) ==
  IR(ir.ops, [b \in BlockKeys |-> Without(ir.blocks[b], i)])

MoveBefore(ir, i, target) ==
  LET d == Detach(ir, i)
      b == BlockOf(d, target)
  IN IR(d.ops, [d.blocks EXCEPT ![b] = InsertAt(@, PosIn(@, target), i)])

EraseOp(ir, i) ==
  LET d == Detach(ir, i)
  IN IR([d.ops EXCEPT ![i] = None], d.blocks)

FreeIds(ir) == OpIds \ Live(ir)

FreeId(ir) == CHOOSE i \in FreeIds(ir) : \A j \in FreeIds(ir) : i <= j

\* rewriter.setInsertionPoint(target); rewriter.create<...>(...)
CreateBefore(ir, rec, target) ==
  LET i == FreeId(ir)
      b == BlockOf(ir, target)
  IN IR([ir.ops EXCEPT ![i] = rec],
        [ir.blocks EXCEPT ![b] = InsertAt(@, PosIn(@, target), i)])

-----------------------------------------------------------------------------
(* Use-def chains *)

\* The operand slots <<user, slot>> holding the resource value v.
UsesOf(ir, v) ==
  UNION {{<<u, s>> : s \in {t \in 1..Len(ir.ops[u].operands) :
                              ir.ops[u].operands[t] = v}} : u \in Live(ir)}

\* The timepoint operand slots holding v.
TpUsesOf(ir, v) ==
  UNION {{<<u, s>> : s \in {t \in 1..Len(ir.ops[u].tps) :
                              ir.ops[u].tps[t] = v}} : u \in Live(ir)}

UsersOf(ir, v) == {us[1] : us \in UsesOf(ir, v) \cup TpUsesOf(ir, v)}

Results(ir, i) ==
  {<<i, j>> : j \in 1..Len(ir.ops[i].life)}
    \cup (IF ir.ops[i].kind \in
               {"async.execute", "cmd.execute", "timepoint.immediate",
                "timepoint.join"}
          THEN {<<i, 0>>} ELSE {})

UseEmpty(ir, i) == \A v \in Results(ir, i) : UsersOf(ir, v) = {}

\* Util::TiedOpInterface::isOperandTied
IsOperandTied(rec, slot) == \E r \in 1..Len(rec.tied) : rec.tied[r] = slot

\* Util::TiedOpInterface::hasAnyTiedUses
HasAnyTiedUses(ir, v) ==
  \E us \in UsesOf(ir, v) : IsOperandTied(ir.ops[us[1]], us[2])

\* value.replaceAllUsesWith(new)
ReplaceAllUses(ir, old, new) ==
  IR([i \in OpIds |->
        [ir.ops[i] EXCEPT
           !.operands = [s \in 1..Len(@) |-> IF @[s] = old THEN new ELSE @[s]],
           !.tps = [s \in 1..Len(@) |-> IF @[s] = old THEN new ELSE @[s]]]],
     ir.blocks)

\* A set of pairs of naturals as the sequence ascending in <<first, second>>.
RECURSIVE SortPairs(_)
SortPairs(S) ==
  IF S = {} THEN <<>>
  ELSE LET m == CHOOSE x \in S :
                  \A y \in S : x[1] < y[1] \/ (x[1] = y[1] /\ x[2] <= y[2])
       IN <<m>> \o SortPairs(S \ {m})

-----------------------------------------------------------------------------
(* ElideUnusedOp<Op> *)

ElideUnusedKinds ==
  {"resource.map", "resource.try_map", "resource.load", "resource.store",
   "tensor.splat", "async.splat", "async.clone", "async.slice", "async.fill",
   "async.update", "async.copy", "async.transfer", "async.dispatch",
   "async.execute", "async.wave", "cmd.execute", "timepoint.await"}

ElideUnusedMatch(ir, o) == UseEmpty(ir, o)


-----------------------------------------------------------------------------
(* MaterializeCOW<Op> *)

MaterializeCOWKinds ==
  {"resource.store", "tensor.import", "async.alloca", "async.constant",
   "async.splat", "async.clone", "async.slice", "async.fill", "async.update",
   "async.copy", "async.transfer", "async.dispatch", "async.execute",
   "async.wave"}

\* The uses the loop over result.getUses() looks at: every use but those
\* owned by a stream.timepoint.await.
CowUses(ir, v) ==
  {us \in UsesOf(ir, v) : ir.ops[us[1]].kind # "timepoint.await"}

CowTiedUses(ir, v) ==
  {us \in CowUses(ir, v) : IsOperandTied(ir.ops[us[1]], us[2])}

CowUntiedUses(ir, v) == CowUses(ir, v) \ CowTiedUses(ir, v)

\* A pattern that never forces the clone of a Constant value.
ForceCloneNever(ir, v) == FALSE

ForceClone(ir, v) == LifeOf(ir, v) = "constant"

\* A pattern that forgets the untied uses: it clones only for several tied
\* uses or a tied use of a Constant value.
CowNeededTiedOnly(ir, v) ==
  \/ Cardinality(CowTiedUses(ir, v)) > 1
  \/ CowTiedUses(ir, v) # {} /\ LifeOf(ir, v) = "constant"

\* Whether the loop body gets past its two `continue`s for result v.
CowNeeded(ir, v) ==
  /\ CowTiedUses(ir, v) # {}
  /\ ~ (/\ Cardinality(CowTiedUses(ir, v)) = 1
        /\ CowUntiedUses(ir, v) = {}
        /\ ~ForceClone(ir, v))

ResourceResults(ir, o) == {<<o, j>> : j \in 1..Len(ir.ops[o].life)}

MaterializeCOWMatch(ir, o) ==
  \E v \in ResourceResults(ir, o) : CowNeeded(ir, v)

\* A pattern that gives the clone the type of the value it clones.
CowCloneLifeOfValue(ir, v) == LifeOf(ir, v)

\* The type of the clone MaterializeCOW creates: !stream.resource<*>.
CowCloneLife(ir, v) == "unknown"

\* A pattern that prefers the producer's affinity.
CowCloneAffinitySwapped(user, producer) ==
  IF producer.aff # "" THEN producer.aff ELSE user.aff

\* targetAffinity ? targetAffinity : sourceAffinity
CowCloneAffinity(user, producer) ==
  IF user.aff # "" THEN user.aff ELSE producer.aff

\* One iteration of the loop over tiedUses: a clone of v right before the
\* user, and the user's operand set to it.
CowCloneUse(ir, v, us) ==
  LET i == FreeId(ir)
      rec == Op("async.clone", <<v>>, <<0>>, <<CowCloneLife(ir, v)>>,
                CowCloneAffinity(ir.ops[us[1]], ir.ops[v[1]]), <<>>, <<>>)
      c == CreateBefore(ir, rec, us[1])
  IN IR([c.ops EXCEPT ![us[1]].operands[us[2]] = <<i, 1>>], c.blocks)

RECURSIVE CowCloneUses(_, _, _)
CowCloneUses(ir, v, uses) ==
  IF uses = <<>> THEN ir
  ELSE CowCloneUses(CowCloneUse(ir, v, Head(uses)), v, Tail(uses))

\* The loop over op->getResults(), results in order.
RECURSIVE MaterializeCOWFrom(_, _, _)
MaterializeCOWFrom(ir, o, j) ==
  IF j > Len(ir.ops[o].life) THEN ir
  ELSE IF CowNeeded(ir, <<o, j>>)
       THEN MaterializeCOWFrom(
              CowCloneUses(ir, <<o, j>>, SortPairs(CowTiedUses(ir, <<o, j>>))),
              o, j + 1)
       ELSE MaterializeCOWFrom(ir, o, j + 1)

MaterializeCOWRewrite(ir, o) == MaterializeCOWFrom(ir, o, 1)

\* The ops the rewrite creates.
MaterializeCOWCost(ir, o) ==
  LET need == {v \in ResourceResults(ir, o) : CowNeeded(ir, v)}
      slots == UNION {CowTiedUses(ir, v) : v \in need}
  IN Cardinality(slots)

-----------------------------------------------------------------------------
(* findInsertionPointBefore and sinkOp *)

\* Operation::getOperands(): the resource and the timepoint operands.
OperandsOf(rec) == Range(rec.operands) \cup Range(rec.tps)

ProducerOps(ir, target) ==
  {v[1] : v \in {w \in OperandsOf(ir.ops[target]) : w[1] > 0}}

\* The loop from Block::iterator(earliestOp), earliestOp included, up to
\* targetOp.
AllUsed(ir, earliestOp, targetOp) ==
  LET b == ir.blocks[BlockOf(ir, earliestOp)]
  IN \A p \in Pos(ir, earliestOp)..(Pos(ir, targetOp) - 1) :
       b[p] \in ProducerOps(ir, targetOp)

\* The op the returned iterator points at: earliestOp or targetOp.
FindInsertionPointBefore(ir, earliestOp, targetOp) ==
  IF /\ BlockOf(ir, earliestOp) = BlockOf(ir, targetOp)
     /\ AllUsed(ir, earliestOp, targetOp)
  THEN earliestOp
  ELSE targetOp

\* sinkOp returns success iff the insertion point is not op itself.
SinkOpMatch(ir, op, targetOp) ==
  FindInsertionPointBefore(ir, op, targetOp) # op

SinkOpRewrite(ir, op, targetOp) == MoveBefore(ir, op, targetOp)

-----------------------------------------------------------------------------
(* Dominance between blocks: the entry block 1 dominates blocks 2 and 3,   *)
(* and the block of a region is dominated by the block of its op.          *)

RECURSIVE FunctionBlock(_, _)
FunctionBlock(ir, b) ==
  IF b <= NBlocks THEN b ELSE FunctionBlock(ir, BlockOf(ir, b - NBlocks))

\* DominanceInfo::findNearestCommonDominator
NearestCommonDominator(ir, a, b) ==
  IF a = b THEN a
  ELSE IF FunctionBlock(ir, a) = FunctionBlock(ir, b) THEN FunctionBlock(ir, a)
  ELSE 1

RECURSIVE CommonDominator(_, _)
CommonDominator(ir, bs) ==
  LET b == CHOOSE x \in bs : TRUE
  IN IF bs = {b} THEN b
     ELSE NearestCommonDominator(ir, b, CommonDominator(ir, bs \ {b}))

\* The op of S that comes last in its block.
Latest(ir, S) == CHOOSE u \in S : \A w \in S : Pos(ir, w) <= Pos(ir, u)

\* The op of S that comes first in its block (S within one block).
Earliest(ir, S) == CHOOSE u \in S : \A w \in S : Pos(ir, u) <= Pos(ir, w)

\* The first user within the dominator block, its terminator if none.
FirstUserInDominator(ir, users, dom) ==
  LET here == {u \in users : BlockOf(ir, u) = dom}
  IN IF here = {} THEN Terminator(ir, dom) ELSE Earliest(ir, here)

-----------------------------------------------------------------------------
(* SinkSplatsToConsumers *)

SinkSplatsHasUsers(ir, o) == UsesOf(ir, <<o, 1>>) # {}

SinkSplatsTarget(ir, o) ==
  LET uses == UsesOf(ir, <<o, 1>>)
      users == {us[1] : us \in uses}
      here == BlockOf(ir, o)
  IN IF Cardinality(uses) = 1 THEN CHOOSE u \in users : TRUE
     ELSE IF \A u \in users : BlockOf(ir, u) = here THEN Earliest(ir, users)
     ELSE FirstUserInDominator(
            ir, users, CommonDominator(ir, {BlockOf(ir, u) : u \in users}))

SinkSplatsMatch(ir, o) ==
  /\ SinkSplatsHasUsers(ir, o)
  /\ SinkOpMatch(ir, o, SinkSplatsTarget(ir, o))

SinkSplatsRewrite(ir, o) == SinkOpRewrite(ir, o, SinkSplatsTarget(ir, o))

-----------------------------------------------------------------------------
(* SinkAwaitToFirstConsumer *)

AwaitUsers(ir, o) == UNION {UsersOf(ir, v) : v \in ResourceResults(ir, o)}

SinkAwaitTarget(ir, o) ==
  LET users == AwaitUsers(ir, o)
  IN FirstUserInDominator(
       ir, users, CommonDominator(ir, {BlockOf(ir, u) : u \in users}))

SinkAwaitMatch(ir, o) ==
  /\ AwaitUsers(ir, o) # {}
  /\ FindInsertionPointBefore(ir, o, SinkAwaitTarget(ir, o)) # o

SinkAwaitRewrite(ir, o) == MoveBefore(ir, o, SinkAwaitTarget(ir, o))

-----------------------------------------------------------------------------
(* stream.async.clone *)

\* StreamableOpInterface::preferCloneToConsumers
PreferCloneToConsumers(rec) == rec.kind \in {"async.splat", "async.constant"}

PropagateClonableOpsMatch(ir, o) ==
  LET src == ir.ops[o].operands[1]
  IN /\ ~UseEmpty(ir, o)
     /\ src[1] > 0
     /\ PreferCloneToConsumers(ir.ops[src[1]])

\* A rewrite that points the use at the producer itself.
PropagateClonableUseShared(ir, sourceOp, us) ==
  IR([ir.ops EXCEPT ![us[1]].operands[us[2]] = <<sourceOp, 1>>], ir.blocks)

\* rewriter.setInsertionPoint(use.getOwner()); rewriter.clone(*sourceOp);
\* use.set(clonedOp->getResult(0))
PropagateClonableUse(ir, sourceOp, us) ==
  LET i == FreeId(ir)
      c == CreateBefore(ir, ir.ops[sourceOp], us[1])
  IN IR([c.ops EXCEPT ![us[1]].operands[us[2]] = <<i, 1>>], c.blocks)

RECURSIVE PropagateClonableUses(_, _, _)
PropagateClonableUses(ir, sourceOp, uses) ==
  IF uses = <<>> THEN ir
  ELSE PropagateClonableUses(PropagateClonableUse(ir, sourceOp, Head(uses)),
                             sourceOp, Tail(uses))

PropagateClonableOpsRewrite(ir, o) ==
  LET done == PropagateClonableUses(ir, ir.ops[o].operands[1][1],
                                    SortPairs(UsesOf(ir, <<o, 1>>)))
  IN IF UseEmpty(done, o) THEN EraseOp(done, o) ELSE done

PropagateClonableOpsCost(ir, o) == Cardinality(UsesOf(ir, <<o, 1>>))

\* A pattern that looks at the tied uses of the source only.
ElideUnneededAsyncClonesSourceOnly(ir, o) ==
  ~HasAnyTiedUses(ir, ir.ops[o].operands[1])

ElideUnneededAsyncClonesMatch(ir, o) ==
  /\ ~HasAnyTiedUses(ir, <<o, 1>>)
  /\ ~HasAnyTiedUses(ir, ir.ops[o].operands[1])

\* rewriter.replaceOp(cloneOp, cloneOp.source())
ElideUnneededAsyncClonesRewrite(ir, o) ==
  EraseOp(ReplaceAllUses(ir, <<o, 1>>, ir.ops[o].operands[1]), o)

-----------------------------------------------------------------------------
(* stream.tensor.clone *)

\* result().getUsers() holds exactly one entry: one use of the result.
TensorCloneFoldMatch(ir, o) == Cardinality(UsesOf(ir, <<o, 1>>)) = 1

ElideUnneededTensorClonesMatch(ir, o) == ~HasAnyTiedUses(ir, <<o, 1>>)

\* rewriter.replaceOp(cloneOp, cloneOp.source()), and the fold to source()
ElideUnneededTensorClonesRewrite(ir, o) ==
  EraseOp(ReplaceAllUses(ir, <<o, 1>>, ir.ops[o].operands[1]), o)

-----------------------------------------------------------------------------
(* stream.async.copy *)

\* The index operands of a copy: target_size, target_offset, target_end,
\* source_size, source_offset, source_end, length; of an update:
\* target_size, target_offset, target_end, update_size.
TargetSize(rec) == rec.attr[1]
TargetOffset(rec) == rec.attr[2]
TargetEnd(rec) == rec.attr[3]
SourceSize(rec) == rec.attr[4]
SourceOffset(rec) == rec.attr[5]
SourceEnd(rec) == rec.attr[6]
UpdateSize(rec) == rec.attr[4]

AsyncCopyFullSourceToUpdateMatch(ir, o) ==
  SourceEnd(ir.ops[o]) = SourceSize(ir.ops[o])

\* replaceOpWithNewOp<AsyncUpdateOp>(copyOp, type, target, target_size,
\*   target_offset, target_end, source, source_size, tied_operands, affinity)
AsyncCopyFullSourceToUpdateRewrite(ir, o) ==
  LET c == ir.ops[o]
      i == FreeId(ir)
      rec == Op("async.update", c.operands, c.tied, c.life, c.aff, <<>>,
                <<TargetSize(c), TargetOffset(c), TargetEnd(c), SourceSize(c)>>)
      made == CreateBefore(ir, rec, o)
  IN EraseOp(ReplaceAllUses(made, <<o, 1>>, <<i, 1>>), o)

-----------------------------------------------------------------------------
(* stream.timepoint.await *)

IsImmediate(ir, tp) == tp[1] > 0 /\ ir.ops[tp[1]].kind = "timepoint.immediate"

ElideImmediateAwaitsMatch(ir, o) == IsImmediate(ir, ir.ops[o].tps[1])

\* rewriter.replaceOp(op, op.operands())
RECURSIVE ReplaceResults(_, _, _, _)
ReplaceResults(ir, o, news, j) ==
  IF j > Len(news) THEN ir
  ELSE ReplaceResults(ReplaceAllUses(ir, <<o, j>>, news[j]), o, news, j + 1)

ElideImmediateAwaitsRewrite(ir, o) ==
  EraseOp(ReplaceResults(ir, o, ir.ops[o].operands, 1), o)

\* AffinityAttr::areCompatible
AreCompatible(a, b) == a = b

\* The later awaits of the block on the same timepoint, whatever their
\* affinity.
CoveredOpsAnyAffinity(ir, o) ==
  LET b == ir.blocks[BlockOf(ir, o)]
  IN SelectSeq(b, LAMBDA u :
       /\ u # o
       /\ ir.ops[u].kind = "timepoint.await"
       /\ ir.ops[u].tps = ir.ops[o].tps
       /\ ~IsBeforeInBlock(ir, u, o))

\* The later awaits of the block on the same timepoint, in block order.
CoveredOps(ir, o) ==
  LET b == ir.blocks[BlockOf(ir, o)]
  IN SelectSeq(b, LAMBDA u :
       /\ u # o
       /\ ir.ops[u].kind = "timepoint.await"
       /\ ir.ops[u].tps = ir.ops[o].tps
       /\ ~IsBeforeInBlock(ir, u, o)
       /\ AreCompatible(ir.ops[o].aff, ir.ops[u].aff))

GroupAwaitsByTimepointMatch(ir, o) == CoveredOps(ir, o) # <<>>

RECURSIVE ConcatOperands(_, _)
ConcatOperands(ir, seq) ==
  IF seq = <<>> THEN <<>>
  ELSE ir.ops[Head(seq)].operands \o ConcatOperands(ir, Tail(seq))

RECURSIVE ConcatLife(_, _)
ConcatLife(ir, seq) ==
  IF seq = <<>> THEN <<>>
  ELSE ir.ops[Head(seq)].life \o ConcatLife(ir, Tail(seq))

\* result.replaceAllUsesWith(newOp.results()[resultIdx++]) for the results
\* of the ops of seq in turn; the covered ops (all but the first) are erased
\* on the way, the root op at the end.
\* llvm::append_range(newOperandSizes, ...operand_sizes())
RECURSIVE ConcatSizes(_, _)
ConcatSizes(ir, seq) ==
  IF seq = <<>> THEN <<>>
  ELSE ir.ops[Head(seq)].attr \o ConcatSizes(ir, Tail(seq))

RECURSIVE GroupReplace(_, _, _, _, _)
GroupReplace(ir, seq, new, resultIdx, root) ==
  IF seq = <<>> THEN EraseOp(ir, root)
  ELSE LET u == Head(seq)
           n == Len(ir.ops[u].operands)
           news == [j \in 1..n |-> <<new, resultIdx + j>>]
           r == ReplaceResults(ir, u, news, 1)
       IN GroupReplace(IF u = root THEN r ELSE EraseOp(r, u),
                       Tail(seq), new, resultIdx + n, root)

GroupAwaitsByTimepointRewrite(ir, o) ==
  LET all == <<o>> \o CoveredOps(ir, o)
      operands == ConcatOperands(ir, all)
      i == FreeId(ir)
      rec == Op("timepoint.await", operands,
                [j \in 1..Len(operands) |-> j], ConcatLife(ir, all),
                ir.ops[o].aff, ir.ops[o].tps, ConcatSizes(ir, all))
      made == CreateBefore(ir, rec, o)
  IN GroupReplace(made, all, i, 0, o)

\* The operand indices of the await that a resource.subview defines.
SubviewOperands(ir, o) ==
  {i \in 1..Len(ir.ops[o].operands) :
     LET v == ir.ops[o].operands[i]
     IN v[1] > 0 /\ ir.ops[v[1]].kind = "resource.subview"}

\* A flag that only the first operand sets.
SinkSubviewsAcrossAwaitsFirstOnly(ir, o) == 1 \in SubviewOperands(ir, o)

\* didChange
SinkSubviewsAcrossAwaitsMatch(ir, o) == SubviewOperands(ir, o) # {}

\* One operand defined by a subview: a subview of the await's result is
\* created at the rewriter's insertion point, the await, and takes over the
\* uses of the result; the operand and its size become the subview's
\* source and source size.
SinkSubview(ir, o, i) ==
  LET sv == ir.ops[ir.ops[o].operands[i][1]]
      new == FreeId(ir)
      result == <<o, i>>
      made == CreateBefore(ir, Op("resource.subview", <<result>>, <<1>>,
                                  sv.life, "", <<>>, sv.attr), o)
      moved == ReplaceAllUses(made, result, <<new, 1>>)
  IN IR([moved.ops EXCEPT ![new].operands[1] = result,
                          ![o].attr[i] = sv.attr[1],
                          ![o].operands[i] = sv.operands[1]],
        moved.blocks)

RECURSIVE SinkSubviews(_, _, _)
SinkSubviews(ir, o, todo) ==
  IF todo = {} THEN ir
  ELSE LET i == CHOOSE c \in todo : \A d \in todo : c <= d
       IN SinkSubviews(SinkSubview(ir, o, i), o, todo \ {i})

SinkSubviewsAcrossAwaitsRewrite(ir, o) ==
  SinkSubviews(ir, o, SubviewOperands(ir, o))

\* The operands of the await without their repetitions, in order.
RECURSIVE NewOperands(_)
NewOperands(operands) ==
  IF operands = <<>> THEN <<>>
  ELSE LET front == NewOperands(SubSeq(operands, 1, Len(operands) - 1))
           operand == operands[Len(operands)]
       IN IF operand \in Range(front) THEN front ELSE Append(front, operand)

\* The index of the old operand whose insertion made new operand k.
InsertedBy(operands, k) ==
  CHOOSE i \in 1..Len(operands) :
    /\ operands[i] = NewOperands(operands)[k]
    /\ \A j \in 1..(i - 1) : operands[j] # operands[i]

\* A map to the index the operand itself has.
OwnIndex(operands, i) == i

\* baseMap: the index among the new operands of old operand i.
BaseIndex(operands, i) == PosIn(NewOperands(operands), operands[i])

FoldDuplicateAwaitResourcesMatch(ir, o) ==
  Len(NewOperands(ir.ops[o].operands)) # Len(ir.ops[o].operands)

FoldDuplicateAwaitResourcesRewrite(ir, o) ==
  LET old == ir.ops[o]
      operands == NewOperands(old.operands)
      n == Len(operands)
      new == FreeId(ir)
      rec == Op("timepoint.await", operands, [k \in 1..n |-> k],
                [k \in 1..n |-> old.life[InsertedBy(old.operands, k)]],
                old.aff, old.tps,
                [k \in 1..n |-> old.attr[InsertedBy(old.operands, k)]])
      made == CreateBefore(ir, rec, o)
      news == [i \in 1..Len(old.operands) |->
                 <<new, BaseIndex(old.operands, i)>>]
  IN EraseOp(ReplaceResults(made, o, news, 1), o)

-----------------------------------------------------------------------------
(* stream.async.execute *)

\* The replacements of ChainAsyncExecuteWaits: the operands defined by a
\* stream.timepoint.await, each with the await operand its result is tied to.
ChainReplacements(ir, o) ==
  {s \in 1..Len(ir.ops[o].operands) :
     LET v == ir.ops[o].operands[s]
     IN v[1] > 0 /\ ir.ops[v[1]].kind = "timepoint.await"}

ChainExecuteWaitsMatch(ir, o) == ChainReplacements(ir, o) # {}

ChainExecuteWaitsRewrite(ir, o) ==
  IR([ir.ops EXCEPT ![o].operands =
        [s \in 1..Len(@) |->
           IF s \in ChainReplacements(ir, o)
           THEN ir.ops[@[s][1]].operands[ir.ops[@[s][1]].tied[@[s][2]]]
           ELSE @[s]]],
     ir.blocks)

\* Util::TiedOpInterface::findTiedBaseValue
RECURSIVE FindTiedBaseValue(_, _)
FindTiedBaseValue(ir, v) ==
  IF v[1] > 0 /\ v[2] >= 1 /\ v[2] <= Len(ir.ops[v[1]].tied)
     /\ ir.ops[v[1]].tied[v[2]] # 0
  THEN FindTiedBaseValue(ir, ir.ops[v[1]].operands[ir.ops[v[1]].tied[v[2]]])
  ELSE v

YieldOp(ir, o) == Terminator(ir, Body(o))

\* The results TieRegionResults ties: not tied yet, and the yielded value
\* is based on a block argument.
TieableResults(ir, o) ==
  {r \in 1..Len(ir.ops[YieldOp(ir, o)].operands) :
     /\ ir.ops[o].tied[r] = 0
     /\ FindTiedBaseValue(ir, ir.ops[YieldOp(ir, o)].operands[r])[1] < 0}

TieRegionResultsMatch(ir, o) == TieableResults(ir, o) # {}

\* A tie to the operand at the result's own index.
TiedIndexSameAsResult(ir, o, r) == r

\* op.setTiedResultOperandIndex(result.index(), blockArg.getArgNumber())
TiedIndexFor(ir, o, r) ==
  FindTiedBaseValue(ir, ir.ops[YieldOp(ir, o)].operands[r])[2]

TieRegionResultsRewrite(ir, o) ==
  IR([ir.ops EXCEPT ![o].tied =
        [r \in 1..Len(@) |->
           IF r \in TieableResults(ir, o) THEN TiedIndexFor(ir, o, r)
           ELSE @[r]]],
     ir.blocks)

\* Erasing an op erases the ops of its region with it.
RECURSIVE EraseAll(_, _)
EraseAll(ir, seq) ==
  IF seq = <<>> THEN ir ELSE EraseAll(EraseOp(ir, Head(seq)), Tail(seq))

EraseWithRegion(ir, o) == EraseOp(EraseAll(ir, ir.blocks[Body(o)]), o)

ElideUnusedRewrite(ir, o) == EraseWithRegion(ir, o)

\* resource.subview: the operand is the source; the index operands are
\* source_size, source_offset, result_size.  The result aliases the source.
Subview(source, life, sourceSize, sourceOffset, resultSize) ==
  Op("resource.subview", <<source>>, <<1>>, <<life>>, "", <<>>,
     <<sourceSize, sourceOffset, resultSize>>)

\* ResourceSubviewOp::findSubviewOp: the subview op a value is sourced from,
\* 0 if there is none.
FindSubviewOp(ir, v) ==
  IF v[1] > 0 /\ ir.ops[v[1]].kind = "resource.subview" THEN v[1] ELSE 0

\* The operand indices of the region op that are sourced from a subview.
Captures(ir, o) ==
  {i \in 1..Len(ir.ops[o].operands) :
     FindSubviewOp(ir, ir.ops[o].operands[i]) # 0}

CloneCapturedExecuteSubviewOpsMatch(ir, o) == Captures(ir, o) # {}

\* The size of the result of the captured subview.
CapturedResultSize(rec) == rec.attr[3]

\* capture.subviewOp.source_size()
CapturedSourceSize(rec) == rec.attr[1]

\* One capture: the operand and its size become the subview's source and
\* source size, a subview of the block argument is created at the insertion
\* point (before op first) and takes over the uses of the block argument.
CloneCapture(ir, o, i, first) ==
  LET sv == ir.ops[FindSubviewOp(ir, ir.ops[o].operands[i])]
      new == FreeId(ir)
      arg == <<-o, i>>
      root == IR([ir.ops EXCEPT ![o].operands[i] = sv.operands[1],
                                ![o].attr[i] = CapturedSourceSize(sv)],
                 ir.blocks)
      made == CreateBefore(root, Subview(arg, sv.life[1], sv.attr[1],
                                         sv.attr[2], sv.attr[3]), first)
      moved == ReplaceAllUses(made, arg, <<new, 1>>)
  IN IR([moved.ops EXCEPT ![new].operands[1] = arg], moved.blocks)

RECURSIVE CloneCaptures(_, _, _, _)
CloneCaptures(ir, o, todo, first) ==
  IF todo = {} THEN ir
  ELSE LET i == CHOOSE c \in todo : \A d \in todo : c <= d
       IN CloneCaptures(CloneCapture(ir, o, i, first), o, todo \ {i}, first)

\* rewriter.setInsertionPointToStart(&entryBlock), then every capture
CloneCapturedExecuteSubviewOpsRewrite(ir, o) ==
  CloneCaptures(ir, o, Captures(ir, o), ir.blocks[Body(o)][1])

\* The indices of the await_timepoints defined by a timepoint.immediate.
ElidedTimepoints(ir, o) ==
  {t \in 1..Len(ir.ops[o].tps) : IsImmediate(ir, ir.ops[o].tps[t])}

ElideImmediateExecuteWaitsMatch(ir, o) == ElidedTimepoints(ir, o) # {}

\* await_timepointsMutable().erase(idx)
EraseIndex(s, idx) == SubSeq(s, 1, idx - 1) \o SubSeq(s, idx + 1, Len(s))

\* for (unsigned idx : llvm::reverse(elidedTimepoints)) erase(idx)
RECURSIVE EraseReversed(_, _)
EraseReversed(s, idxs) ==
  IF idxs = {} THEN s
  ELSE LET idx == CHOOSE i \in idxs : \A j \in idxs : i >= j
       IN EraseReversed(EraseIndex(s, idx), idxs \ {idx})

ElideImmediateExecuteWaitsRewrite(ir, o) ==
  IR([ir.ops EXCEPT ![o].tps = EraseReversed(@, ElidedTimepoints(ir, o))],
     ir.blocks)

\* A list that keeps the last occurrence of each entry.
RECURSIVE LastOccurrences(_)
LastOccurrences(s) ==
  IF s = <<>> THEN <<>>
  ELSE IF Head(s) \in Range(Tail(s)) THEN LastOccurrences(Tail(s))
  ELSE <<Head(s)>> \o LastOccurrences(Tail(s))

\* SetVector<Value>::insert(begin, end); takeVector()
RECURSIVE UniqueTimepoints(_)
UniqueTimepoints(s) ==
  IF s = <<>> THEN <<>>
  ELSE LET front == UniqueTimepoints(SubSeq(s, 1, Len(s) - 1))
       IN IF s[Len(s)] \in Range(front) THEN front
          ELSE Append(front, s[Len(s)])

ElideDuplicateExecuteWaitsMatch(ir, o) ==
  Len(UniqueTimepoints(ir.ops[o].tps)) # Len(ir.ops[o].tps)

ElideDuplicateExecuteWaitsRewrite(ir, o) ==
  IR([ir.ops EXCEPT ![o].tps = UniqueTimepoints(@)], ir.blocks)

\* A check of the number of ops in the entry block only.
ElideNoOpExecuteOpSizeOnly(ir, o) == Len(ir.blocks[Body(o)]) = 1

ElideNoOpExecuteOpMatch(ir, o) ==
  /\ Len(ir.blocks[Body(o)]) = 1
  /\ ir.ops[YieldOp(ir, o)].operands = <<>>

\* rewriter.replaceOpWithNewOp<TimepointImmediateOp>(op, ...)
ElideNoOpExecuteOpRewrite(ir, o) ==
  LET new == FreeId(ir)
      made == CreateBefore(ir, Immediate, o)
  IN EraseWithRegion(ReplaceAllUses(made, <<o, 0>>, <<new, 0>>), o)

-----------------------------------------------------------------------------
(* stream.timepoint.join *)

\* The operands of the join that no timepoint.immediate defines, in order.
NewTimepoints(ir, o) ==
  SelectSeq(ir.ops[o].tps, LAMBDA t : ~IsImmediate(ir, t))

\* fold: every operand is a constant (an immediate timepoint).
FoldsToImmediate(ir, o) == NewTimepoints(ir, o) = <<>>

\* A fold that looks at the number of operands only.
TimepointJoinFoldSingleOnly(ir, o) == Len(ir.ops[o].tps) = 1

TimepointJoinFoldMatch(ir, o) ==
  FoldsToImmediate(ir, o) \/ Len(ir.ops[o].tps) = 1

\* The block constants are materialized in: the entry block of the function,
\* or the block of the region the op is in.
EntryBlock(ir, o) == IF BlockOf(ir, o) <= NBlocks THEN 1 ELSE BlockOf(ir, o)

\* The folded value: a timepoint.immediate materialized at the start of the
\* entry block, or the single joined timepoint.
TimepointJoinFoldRewrite(ir, o) ==
  IF FoldsToImmediate(ir, o)
  THEN LET new == FreeId(ir)
           made == CreateBefore(ir, Immediate,
                                ir.blocks[EntryBlock(ir, o)][1])
       IN EraseOp(ReplaceAllUses(made, <<o, 0>>, <<new, 0>>), o)
  ELSE EraseOp(ReplaceAllUses(ir, <<o, 0>>, ir.ops[o].tps[1]), o)

ElideImmediateTimepointJoinOperandsMatch(ir, o) ==
  Len(NewTimepoints(ir, o)) # Len(ir.ops[o].tps)

ElideImmediateTimepointJoinOperandsRewrite(ir, o) ==
  IF NewTimepoints(ir, o) = <<>>
  THEN LET new == FreeId(ir)
           made == CreateBefore(ir, Immediate, o)
       IN EraseOp(ReplaceAllUses(made, <<o, 0>>, <<new, 0>>), o)
  ELSE IR([ir.ops EXCEPT ![o].tps = NewTimepoints(ir, o)], ir.blocks)

FoldDuplicateTimepointJoinOperandsMatch(ir, o) ==
  Len(UniqueTimepoints(ir.ops[o].tps)) # Len(ir.ops[o].tps)

FoldDuplicateTimepointJoinOperandsRewrite(ir, o) ==
  IR([ir.ops EXCEPT ![o].tps = UniqueTimepoints(@)], ir.blocks)

\* The number of timepoint.immediate ops a rewrite of the join creates.
JoinCost(ir, o) == IF FoldsToImmediate(ir, o) THEN 1 ELSE 0

-----------------------------------------------------------------------------
(* Subview folding.  The index operands (sizes, offsets, lengths) of the   *)
(* ops below are index values: a natural is a constant, -i is the result   *)
(* of the arith.addi op i, and -(MaxOps + k) is index argument k of the    *)
(* function.  A resource.load, resource.store or cmd.* op holds, for its   *)
(* resource operand i, attr[i] = <<size, offset, length>>.                 *)

IsConstantIndex(x) == x >= 0

AddI(lhs, rhs) == Op("arith.addi", <<>>, <<>>, <<>>, "", <<>>, <<lhs, rhs>>)

\* Whether createOrFold<AddIOp>(lhs, rhs) folds: constant operands, or x + 0.
AddIFolds(lhs, rhs) ==
  (IsConstantIndex(lhs) /\ IsConstantIndex(rhs)) \/ rhs = 0

\* rewriter.createOrFold<mlir::AddIOp>(loc, lhs, rhs) with the insertion
\* point before op ip: the IR and the index value of the sum.
CreateOrFoldAddI(ir, lhs, rhs, ip) ==
  IF AddIFolds(lhs, rhs)
  THEN [ir |-> ir, v |-> IF rhs = 0 THEN lhs ELSE lhs + rhs]
  ELSE [ir |-> CreateBefore(ir, AddI(lhs, rhs), ip), v |-> -FreeId(ir)]

\* A fusion that keeps the op's own offset.
NewOffsetOwnOnly(sum, own) == own

\* op.source_offsetMutable().assign(newOffset)
NewOffset(sum, own) == sum

\* The op references, in operand i, the source of the subview that operand
\* is, with the subview's source size and the sum of the two offsets.
FoldSubviewInto(ir, o, i, ip) ==
  LET sv == ir.ops[FindSubviewOp(ir, ir.ops[o].operands[i])]
      own == ir.ops[o].attr[i]
      sum == CreateOrFoldAddI(ir, sv.attr[2], own[2], ip)
  IN IR([sum.ir.ops EXCEPT
           ![o].operands[i] = sv.operands[1],
           ![o].attr[i] = <<sv.attr[1], NewOffset(sum.v, own[2]), own[3]>>],
        sum.ir.blocks)

\* The operands of the op that are subviews.
SubviewSlots(ir, o) ==
  {i \in 1..Len(ir.ops[o].operands) :
     FindSubviewOp(ir, ir.ops[o].operands[i]) # 0}

\* The number of arith.addi ops folding the subviews of slots S creates.
AddICost(ir, o, S) ==
  Cardinality({i \in S :
    ~AddIFolds(ir.ops[FindSubviewOp(ir, ir.ops[o].operands[i])].attr[2],
               ir.ops[o].attr[i][2])})

\* FoldSubviewIntoLoadOp, FoldSubviewIntoStoreOp: the source (target) is the
\* first operand; the addition is created at the op.
FoldSubviewIntoLoadOpMatch(ir, o) == 1 \in SubviewSlots(ir, o)

FoldSubviewIntoLoadOpRewrite(ir, o) == FoldSubviewInto(ir, o, 1, o)

\* FoldResourceSubviewOps
FoldResourceSubviewOpsMatch(ir, o) == 1 \in SubviewSlots(ir, o)

FoldResourceSubviewOpsCost(ir, o) ==
  IF AddIFolds(ir.ops[FindSubviewOp(ir, ir.ops[o].operands[1])].attr[2],
               ir.ops[o].attr[2])
  THEN 1 ELSE 2

FoldResourceSubviewOpsRewrite(ir, o) ==
  LET parentOp == ir.ops[FindSubviewOp(ir, ir.ops[o].operands[1])]
      sum == CreateOrFoldAddI(ir, parentOp.attr[2], ir.ops[o].attr[2], o)
      new == FreeId(sum.ir)
      made == CreateBefore(sum.ir,
                Subview(parentOp.operands[1], ir.ops[o].life[1],
                        parentOp.attr[1],
                        NewOffset(sum.v, ir.ops[o].attr[2]),
                        ir.ops[o].attr[3]), o)
  IN EraseOp(ReplaceAllUses(made, <<o, 1>>, <<new, 1>>), o)

\* op->getParentOfType<Kind>(): the nearest op of the kind whose region
\* holds op o, 0 if there is none.
RECURSIVE ParentOfType(_, _, _)
ParentOfType(ir, o, kind) ==
  LET b == BlockOf(ir, o)
  IN IF b <= NBlocks THEN 0
     ELSE IF ir.ops[b - NBlocks].kind = kind THEN b - NBlocks
     ELSE ParentOfType(ir, b - NBlocks, kind)

\* setInsertionPointToParentExecutionScope: the op the rewriter inserts
\* before.  Every cmd.* op of the inputs is inside an execution region.
ParentExecutionScope(ir, o) ==
  IF ParentOfType(ir, o, "async.execute") # 0
  THEN ParentOfType(ir, o, "async.execute")
  ELSE ParentOfType(ir, o, "cmd.execute")

\* The subviews of the slots todo folded one after the other, in operand
\* order, every addition created at the same insertion point.
RECURSIVE FoldSubviewsInto(_, _, _, _)
FoldSubviewsInto(ir, o, todo, ip) ==
  IF todo = {} THEN ir
  ELSE LET i == CHOOSE c \in todo : \A d \in todo : c <= d
       IN FoldSubviewsInto(FoldSubviewInto(ir, o, i, ip), o, todo \ {i}, ip)

\* FoldSubviewsIntoCmdFlushOp, FoldCmdInSubviewsIntoCmdInvalidateOp,
\* FoldCmdSubviewsIntoCmdDiscardOp, FoldSubviewsIntoCmdFillOp: the target is
\* the only resource.
CmdTargetKinds == {"cmd.flush", "cmd.invalidate", "cmd.discard", "cmd.fill"}

FoldSubviewsIntoCmdTOpMatch(ir, o) == 1 \in SubviewSlots(ir, o)

FoldSubviewsIntoCmdTOpRewrite(ir, o) ==
  FoldSubviewInto(ir, o, 1, ParentExecutionScope(ir, o))

\* FoldSubviewsIntoCmdCopyOp (operand 1 is the source, operand 2 the target)
\* and FoldCmdSubviewsIntoCmdDispatchOp (the operands are the resources).
FoldSubviewsIntoCmdOpMatch(ir, o) == SubviewSlots(ir, o) # {}

FoldSubviewsIntoCmdOpRewrite(ir, o) ==
  FoldSubviewsInto(ir, o, SubviewSlots(ir, o), ParentExecutionScope(ir, o))

-----------------------------------------------------------------------------
(* stream.async.slice, stream.async.update, stream.async.fill.  The index  *)
(* operands of a slice are source_size, source_offset, source_end,         *)
(* result_size; of a fill target_size, target_offset, target_end,          *)
(* target_length; of a clone that states them source_size, result_size.    *)

DefinedBy(ir, v, kind) == v[1] > 0 /\ ir.ops[v[1]].kind = kind

\* rewriter.replaceOpWithNewOp<...>(op, ...): the new op is created at op
\* and takes over the uses of its result; op is erased.
ReplaceOpWithNewOp(ir, o, rec) ==
  LET i == FreeId(ir)
      made == CreateBefore(ir, rec, o)
  IN EraseOp(ReplaceAllUses(made, <<o, 1>>, <<i, 1>>), o)

\* rewriter.replaceOp(op, value), and a fold to a value
ReplaceOp(ir, o, v) == EraseOp(ReplaceAllUses(ir, <<o, 1>>, v), o)

AsyncSlice(source, life, aff, attr) ==
  Op("async.slice", <<source>>, <<0>>, <<life>>, aff, <<>>, attr)

\* PropagateClonedSlices: a clone of a slice becomes a slice of the slice's
\* source, with the clone's type and affinity.
PropagateClonedSlicesMatch(ir, o) ==
  DefinedBy(ir, ir.ops[o].operands[1], "async.slice")

PropagateClonedSlicesRewrite(ir, o) ==
  LET cloneOp == ir.ops[o]
      sliceOp == ir.ops[cloneOp.operands[1][1]]
  IN ReplaceOpWithNewOp(ir, o,
       AsyncSlice(sliceOp.operands[1], cloneOp.life[1], cloneOp.aff,
                  sliceOp.attr))

\* cloneOp.source_size().  A clone built without explicit sizes (a
\* materialized copy-on-write clone) has the size of its result for both.
CloneSourceSize(cloneOp, resultSize) ==
  IF cloneOp.attr = <<>> THEN resultSize ELSE cloneOp.attr[1]

\* A rewrite that wraps the slice's source in a clone again.
ResourcedSliceOfClone(ir, o) ==
  LET sliceOp == ir.ops[o]
  IN AsyncSlice(sliceOp.operands[1], sliceOp.life[1], sliceOp.aff,
                sliceOp.attr)

\* The slice PropagateSliceClones creates: of the clone's source, with the
\* clone's source size and the slice's own range, type and affinity.
ResourcedSlice(ir, o) ==
  LET sliceOp == ir.ops[o]
      cloneOp == ir.ops[sliceOp.operands[1][1]]
  IN AsyncSlice(cloneOp.operands[1], sliceOp.life[1], sliceOp.aff,
                <<CloneSourceSize(cloneOp, sliceOp.attr[1]), sliceOp.attr[2],
                  sliceOp.attr[3], sliceOp.attr[4]>>)

PropagateSliceClonesMatch(ir, o) ==
  DefinedBy(ir, ir.ops[o].operands[1], "async.clone")

PropagateSliceClonesRewrite(ir, o) ==
  ReplaceOpWithNewOp(ir, o, ResourcedSlice(ir, o))

\* PropagateSplatsThroughSlices: a slice of a splat becomes a splat of the
\* slice's size.
PropagateSplatsThroughSlicesMatch(ir, o) ==
  DefinedBy(ir, ir.ops[o].operands[1], "async.splat")

PropagateSplatsThroughSlicesRewrite(ir, o) ==
  ReplaceOpWithNewOp(ir, o,
    Op("async.splat", <<>>, <<0>>, ir.ops[o].life, ir.ops[o].aff, <<>>, <<>>))

\* AsyncSliceOp::fold: a slice of the entire source is the source.
AsyncSliceFoldMatch(ir, o) == ir.ops[o].attr[1] = ir.ops[o].attr[4]

AsyncSliceFoldRewrite(ir, o) == ReplaceOp(ir, o, ir.ops[o].operands[1])

\* AsyncUpdateOp::fold: an update of the entire target is the update.
AsyncUpdateFoldMatch(ir, o) == UpdateSize(ir.ops[o]) = TargetSize(ir.ops[o])

AsyncUpdateFoldRewrite(ir, o) == ReplaceOp(ir, o, ir.ops[o].operands[2])

\* CombineSplatUpdateFromToFill
CombineSplatUpdateFromToFillMatch(ir, o) ==
  DefinedBy(ir, ir.ops[o].operands[2], "async.splat")

CombineSplatUpdateFromToFillRewrite(ir, o) ==
  LET u == ir.ops[o]
  IN ReplaceOpWithNewOp(ir, o,
       Op("async.fill", <<u.operands[1]>>, u.tied, u.life, u.aff, <<>>,
          <<TargetSize(u), TargetOffset(u), TargetEnd(u), UpdateSize(u)>>))

\* FlattenFullFillToSplat: target_length == target_size
FlattenFullFillToSplatMatch(ir, o) == ir.ops[o].attr[4] = ir.ops[o].attr[1]

FlattenFullFillToSplatRewrite(ir, o) ==
  ReplaceOpWithNewOp(ir, o,
    Op("async.splat", <<>>, <<0>>, ir.ops[o].life, ir.ops[o].aff, <<>>, <<>>))

\* !sliceOp->isBeforeInBlock(targetDefOp)
SliceNotBefore(ir, sliceOp, targetDefOp) ==
  ~IsBeforeInBlock(ir, sliceOp, targetDefOp)

\* CombineSliceUpdateFromToCopy: the two early returns.
CombineSliceUpdateFromToCopyMatch(ir, o) ==
  LET update == ir.ops[o].operands[2]
      target == ir.ops[o].operands[1]
  IN /\ DefinedBy(ir, update, "async.slice")
     /\ BlockOf(ir, update[1]) = BlockOf(ir, o)
     /\ target[1] > 0
     /\ BlockOf(ir, target[1]) = BlockOf(ir, update[1])
     /\ SliceNotBefore(ir, update[1], target[1])

CombineSliceUpdateFromToCopyRewrite(ir, o) ==
  LET u == ir.ops[o]
      sliceOp == ir.ops[u.operands[2][1]]
  IN ReplaceOpWithNewOp(ir, o,
       Op("async.copy", <<u.operands[1], sliceOp.operands[1]>>, u.tied,
          u.life, u.aff, <<>>,
          <<TargetSize(u), TargetOffset(u), TargetEnd(u), sliceOp.attr[1],
            sliceOp.attr[2], sliceOp.attr[3], sliceOp.attr[4]>>))

-----------------------------------------------------------------------------
(* stream.resource.pack.  attr is <<offset, slices>>: the optional base     *)
(* offset operand as a sequence of at most one index, and one               *)
(* <<lifetimeStart, lifetimeEnd, dynamicSize>> per slice.  Result 1 is      *)
(* total_length, result k + 1 the packed offset of slice k; as an index a   *)
(* result is written PackResult(op, j).                                     *)

PackResult(p, j) == -(j * (MaxOps + 3) + p)

Pack(offset, slices, aff) ==
  Op("resource.pack", <<>>, <<>>, <<>>, aff, <<>>, <<offset, slices>>)

PackOffset(rec) == rec.attr[1]

PackSlices(rec) == rec.attr[2]

\* The slots of an op that hold an index operand: slot 0 of a pack is its
\* offset, slot k the dynamic size of its slice k.
IndexSlots(rec) ==
  IF rec.kind = "resource.pack"
  THEN (IF PackOffset(rec) = <<>> THEN {} ELSE {0})
         \cup (1..Len(PackSlices(rec)))
  ELSE IF rec.kind \in {"resource.subview", "arith.addi"}
  THEN 1..Len(rec.attr)
  ELSE {}

IndexOperand(rec, s) ==
  IF rec.kind = "resource.pack"
  THEN (IF s = 0 THEN PackOffset(rec)[1] ELSE PackSlices(rec)[s][3])
  ELSE rec.attr[s]

IndexUsesOf(ir, v) ==
  UNION {{<<u, s>> : s \in {t \in IndexSlots(ir.ops[u]) :
                              IndexOperand(ir.ops[u], t) = v}} : u \in Live(ir)}

WithIndexOperands(rec, old, new) ==
  IF rec.kind = "resource.pack"
  THEN [rec EXCEPT
          !.attr = <<[i \in 1..Len(PackOffset(rec)) |->
                        IF PackOffset(rec)[i] = old THEN new
                        ELSE PackOffset(rec)[i]],
                     [k \in 1..Len(PackSlices(rec)) |->
                        [PackSlices(rec)[k] EXCEPT
                           ![3] = IF @ = old THEN new ELSE @]]>>]
  ELSE [rec EXCEPT !.attr = [s \in 1..Len(rec.attr) |->
                               IF rec.attr[s] = old THEN new ELSE rec.attr[s]]]

\* value.replaceAllUsesExcept(new, exceptions), for an index value
ReplaceIndexUsesExcept(ir, old, new, exceptions) ==
  IR([o \in OpIds |->
        LET rec == ir.ops[o]
        IN IF o \notin exceptions /\ IndexSlots(rec) # {}
           THEN WithIndexOperands(rec, old, new) ELSE rec],
     ir.blocks)

\* ResourcePackOp::fold: without slices the total length is 0; with one
\* slice the total length is the slice's size and the packed offset the base
\* offset, or 0 without one.
ResourcePackFoldMatch(ir, o) == Len(PackSlices(ir.ops[o])) <= 1

ResourcePackFoldRewrite(ir, o) ==
  LET rec == ir.ops[o]
  IN IF PackSlices(rec) = <<>>
     THEN EraseOp(ReplaceIndexUsesExcept(ir, PackResult(o, 1), 0, {}), o)
     ELSE EraseOp(
            ReplaceIndexUsesExcept(
              ReplaceIndexUsesExcept(ir, PackResult(o, 1),
                                     PackSlices(rec)[1][3], {}),
              PackResult(o, 2),
              IF PackOffset(rec) = <<>> THEN 0 ELSE PackOffset(rec)[1], {}),
            o)

\* The op after op o in its block.
NextOp(ir, o) == ir.blocks[BlockOf(ir, o)][Pos(ir, o) + 1]

\* A rewrite that sends the addition's own operand to the sum as well.
OffsetSliceNoExclusion(ir, o, baseOffset, k, ip) ==
  LET addOp == FreeId(ir)
      made == CreateBefore(ir, AddI(baseOffset, PackResult(o, k + 1)), ip)
  IN ReplaceIndexUsesExcept(made, PackResult(o, k + 1), -addOp, {})

\* One round of the loop over op.packed_offsets(): the addition is created at
\* the insertion point ip and takes over the other uses of the packed offset.
OffsetSlice(ir, o, baseOffset, k, ip) ==
  LET addOp == FreeId(ir)
      made == CreateBefore(ir, AddI(baseOffset, PackResult(o, k + 1)), ip)
  IN ReplaceIndexUsesExcept(made, PackResult(o, k + 1), -addOp, {addOp})

RECURSIVE OffsetSlices(_, _, _, _, _)
OffsetSlices(ir, o, baseOffset, k, ip) ==
  IF k > Len(PackSlices(ir.ops[o])) THEN ir
  ELSE OffsetSlices(OffsetSlice(ir, o, baseOffset, k, ip), o, baseOffset,
                    k + 1, ip)

PropagateResourcePackBaseOffsetMatch(ir, o) == PackOffset(ir.ops[o]) # <<>>

PropagateResourcePackBaseOffsetCost(ir, o) ==
  IF PackOffset(ir.ops[o]) = <<0>> THEN 0 ELSE Len(PackSlices(ir.ops[o]))

\* The offset is always stripped; a constant 0 ends the rewrite; otherwise
\* the insertion point is set after the op for the additions.
PropagateResourcePackBaseOffsetRewrite(ir, o) ==
  LET baseOffset == PackOffset(ir.ops[o])[1]
      stripped == IR([ir.ops EXCEPT ![o].attr[1] = <<>>], ir.blocks)
  IN IF baseOffset = 0 THEN stripped
     ELSE OffsetSlices(stripped, o, baseOffset, 1, NextOp(ir, o))

\* Slice::operator<: by lifetime interval, start first.
SliceLess(a, b) == a[1] < b[1] \/ (a[1] = b[1] /\ a[2] < b[2])

\* Left as stored.
StoredOrder(slices) == [i \in 1..Len(slices) |-> i]

\* std::stable_sort(slices.begin(), slices.end()): the stored positions of
\* the slices in sorted order, equal slices in stored order.
RECURSIVE StableSortOf(_, _)
StableSortOf(slices, S) ==
  LET Before(a, b) == SliceLess(slices[a], slices[b])
                        \/ (~SliceLess(slices[b], slices[a]) /\ a < b)
      first == CHOOSE a \in S : \A b \in S \ {a} : Before(a, b)
  IN IF S = {} THEN <<>> ELSE <<first>> \o StableSortOf(slices, S \ {first})

StableSort(slices) == StableSortOf(slices, 1..Len(slices))

\* orderChanged: a sorted slice's packed offset is not the stored one.
CanonicalizeResourcePackIntervalsMatch(ir, o) ==
  LET sorted == StableSort(PackSlices(ir.ops[o]))
  IN \E i \in 1..Len(sorted) : sorted[i] # i

RECURSIVE RemapPackedOffsets(_, _, _, _, _)
RemapPackedOffsets(ir, o, newOp, sorted, i) ==
  IF i > Len(sorted) THEN ir
  ELSE RemapPackedOffsets(
         ReplaceIndexUsesExcept(ir, PackResult(o, sorted[i] + 1),
                                PackResult(newOp, i + 1), {}),
         o, newOp, sorted, i + 1)

CanonicalizeResourcePackIntervalsRewrite(ir, o) ==
  LET rec == ir.ops[o]
      sorted == StableSort(PackSlices(rec))
      newOp == FreeId(ir)
      made == CreateBefore(ir,
                Pack(PackOffset(rec),
                     [i \in 1..Len(sorted) |-> PackSlices(rec)[sorted[i]]],
                     rec.aff), o)
      total == ReplaceIndexUsesExcept(made, PackResult(o, 1),
                                      PackResult(newOp, 1), {})
  IN EraseOp(RemapPackedOffsets(total, o, newOp, sorted, 1), o)

-----------------------------------------------------------------------------
(* Input programs.  Every input is well formed: operands are defined before *)
(* their use and each block ends in its terminator.                         *)

MkOps(seq) == [i \in OpIds |-> IF i <= Len(seq) THEN seq[i] ELSE None]

MkBlocks(b1, b2, b3, e, body) ==
  [b \in BlockKeys |->
     IF b = 1 THEN b1 ELSE IF b = 2 THEN b2 ELSE IF b = 3 THEN b3
     ELSE IF e # 0 /\ b = Body(e) THEN body ELSE <<>>]

Dispatch(operands, tied, life, aff) ==
  Op("async.dispatch", operands, tied, life, aff, <<>>, <<>>)

\* An await of resources of MaxSize bytes each.
Await(tp, operands, life, aff) ==
  Op("timepoint.await", operands, [i \in 1..Len(operands) |-> i], life, aff,
     <<tp>>, [i \in 1..Len(operands) |-> MaxSize])

Export(v) == Op("tensor.export", <<v>>, <<>>, <<>>, "", <<>>, <<>>)

Return(operands) == Op("return", operands, <<>>, <<>>, "", <<>>, <<>>)

\* A producer whose result is read by a timepoint.await (whose result is
\* returned) or an export, or by neither, and by two consumers, each tying it
\* or not; the first consumer may tie it twice.
SeedsCOW ==
  {IR(MkOps(<<Op(pk, <<<<0, 1>>>>, <<0>>, <<pl>>, pa, <<>>, <<>>),
              IF rd = "await" THEN Await(<<0, 11>>, <<<<1, 1>>>>, <<pl>>, "")
              ELSE IF rd = "export" THEN Export(<<1, 1>>)
              ELSE Export(<<0, 1>>),
              Dispatch(<<<<1, 1>>, IF t1 = 2 THEN <<1, 1>> ELSE <<0, 1>>>>,
                       IF t1 = 2 THEN <<1, 2>> ELSE <<t1>>,
                       IF t1 = 2 THEN <<"transient", "transient">>
                       ELSE <<"transient">>, ka),
              Dispatch(<<IF t2 = 2 THEN <<0, 1>> ELSE <<1, 1>>>>,
                       <<IF t2 = 2 THEN 0 ELSE t2>>, <<"transient">>, ""),
              Return(IF rd = "await" THEN <<<<3, 1>>, <<4, 1>>, <<2, 1>>>>
                     ELSE <<<<3, 1>>, <<4, 1>>>>)>>),
      MkBlocks(<<1, 2, 3, 4, 5>>, <<>>, <<>>, 0, <<>>))
   : pk \in {"async.dispatch", "tensor.import"},
     pl \in {"transient", "constant"},
     pa \in {"", "A"}, ka \in {"", "B"},
     rd \in {"await", "export", "none"},
     t1 \in 0..2, t2 \in 0..2}

Splat(life, aff) == Op("async.splat", <<>>, <<0>>, <<life>>, aff, <<>>, <<>>)

Import(life) == Op("tensor.import", <<<<0, 1>>>>, <<0>>, <<life>>, "", <<>>, <<>>)

Branch == Op("br", <<>>, <<>>, <<>>, "", <<>>, <<>>)

\* A splat or an await (op 1) and an import (op 2) in the entry block, in
\* either order, read by a dispatch in the entry block and by an export in
\* each of the two successor blocks; each reader reads op 1 or op 2.
SeedsSink ==
  {IR(MkOps(<<IF k = "splat" THEN Splat("transient", "")
              ELSE Await(<<0, 11>>, <<<<0, 1>>>>, <<"external">>, ""),
              Import("transient"),
              Dispatch(<<<<u1, 1>>, <<2, 1>>>>, <<t>>, <<"transient">>, ""),
              Branch,
              Export(<<u2, 1>>), Return(<<>>),
              Export(<<u3, 1>>), Return(<<>>)>>),
      MkBlocks(IF first = 1 THEN <<1, 2, 3, 4>> ELSE <<2, 1, 3, 4>>,
               <<5, 6>>, <<7, 8>>, 0, <<>>))
   : k \in {"splat", "await"}, first \in 1..2, t \in 0..1,
     u1 \in 1..2, u2 \in 1..2, u3 \in 1..2}

Clone(v, life, aff) == Op("async.clone", <<v>>, <<0>>, <<life>>, aff, <<>>, <<>>)

\* A splat or an import (op 1), a clone of it (op 2) read by a dispatch that
\* ties it or not, and a second dispatch that reads op 1, tied or not, or
\* the clone.
SeedsClone ==
  {IR(MkOps(<<IF pk = "splat" THEN Splat(pl, "") ELSE Import(pl),
              Clone(<<1, 1>>, "transient", ca),
              Dispatch(<<<<2, 1>>>>, <<t1>>, <<"transient">>, ""),
              Dispatch(<<<<u2, 1>>>>, <<t2>>, <<"transient">>, ""),
              Return(<<<<3, 1>>, <<4, 1>>>>)>>),
      MkBlocks(<<1, 2, 3, 4, 5>>, <<>>, <<>>, 0, <<>>))
   : pk \in {"splat", "import"}, pl \in {"transient", "constant"},
     ca \in {"", "A"}, t1 \in 0..1, t2 \in 0..1, u2 \in 1..2}

TensorClone(v) == Op("tensor.clone", <<v>>, <<0>>, <<"transient">>, "", <<>>, <<>>)

TensorUpdate(target, update) ==
  Op("tensor.update", <<target, update>>, <<1>>, <<"transient">>, "", <<>>, <<>>)

\* An import (op 1), a tensor.clone of it (op 2), and two tensor.update ops,
\* each updating (in place) the import or the clone with the import or the
\* clone.
SeedsTensorClone ==
  {IR(MkOps(<<Import("transient"),
              TensorClone(<<1, 1>>),
              TensorUpdate(<<t1, 1>>, <<u1, 1>>),
              TensorUpdate(<<t2, 1>>, <<u2, 1>>),
              Return(<<<<3, 1>>, <<4, 1>>>>)>>),
      MkBlocks(<<1, 2, 3, 4, 5>>, <<>>, <<>>, 0, <<>>))
   : t1 \in 1..2, u1 \in 1..2, t2 \in 1..2, u2 \in 1..2}

\* Two awaits in one block, on function argument 11, on argument 12 or on
\* an immediate timepoint, each read by an export; the second await passes
\* through a function argument or the result of an import that is defined
\* before or after the first await.
SeedsAwait ==
  {IR(MkOps(<<Immediate,
              Await(tpA, <<<<0, 1>>>>, <<"external">>, ""),
              Export(<<2, 1>>),
              Import("transient"),
              Await(tpB, <<x>>, <<"transient">>, ab),
              Export(<<5, 1>>),
              Return(<<>>)>>),
      MkBlocks(IF late THEN <<1, 2, 3, 4, 5, 6, 7>>
               ELSE <<1, 4, 2, 3, 5, 6, 7>>, <<>>, <<>>, 0, <<>>))
   : tpA \in {<<0, 11>>, <<1, 0>>}, tpB \in {<<0, 11>>, <<0, 12>>, <<1, 0>>},
     x \in {<<4, 1>>, <<0, 1>>}, ab \in {"", "A"}, late \in BOOLEAN}

Execute(operands, tied, life, tps) ==
  Op("async.execute", operands, tied, life, "", tps, <<>>)

Yield(operands) == Op("yield", operands, <<>>, <<>>, "", <<>>, <<>>)

\* An execute region (op 2) capturing a function argument or the result of
\* an await (op 1); its body is a dispatch on the block argument, tied or
\* not, and a yield of the dispatch result or of the block argument itself.
\* The results of the region are awaited (op 5) and exported.
SeedsExecute ==
  {LET arg == IF cap = <<1, 1>> THEN a ELSE cap
       capLife == ArgLife(arg[2])
       inLife == IF it = 1 THEN capLife ELSE "transient"
       outLife == IF y = <<-2, 1>> THEN capLife ELSE inLife
   IN IR(MkOps(<<Await(<<0, 11>>, <<a>>, <<ArgLife(a[2])>>, ""),
                 Execute(<<cap>>, <<0>>, <<outLife>>, tps),
                 Dispatch(<<<<-2, 1>>>>, <<it>>, <<inLife>>, ""),
                 Yield(<<y>>),
                 Await(<<2, 0>>, <<<<2, 1>>>>, <<outLife>>, ""),
                 Export(<<5, 1>>),
                 Return(<<>>)>>),
         MkBlocks(<<1, 2, 5, 6, 7>>, <<>>, <<>>, 2, <<3, 4>>))
   : a \in {<<0, 1>>, <<0, 2>>}, cap \in {<<1, 1>>, <<0, 1>>, <<0, 2>>},
     tps \in {<<>>, << <<0, 11>> >>, << <<0, 12>> >>},
     it \in 0..1, y \in {<<3, 1>>, <<-2, 1>>}}

\* An execute region (op 1) capturing both function arguments, with two
\* results, the first of them tied to an operand or not.  Its body is a
\* dispatch on block argument 1, tied or not, a splat, and a yield of two
\* of: a block argument, the dispatch result, the splat.
SeedsTie ==
  {IR(MkOps(<<Execute(<<<<0, 1>>, <<0, 2>>>>, <<t1, 0>>,
                      <<"transient", "transient">>, <<>>),
              Dispatch(<<<<-1, 1>>>>, <<it>>,
                       <<IF it = 1 THEN "external" ELSE "transient">>, ""),
              Splat("transient", ""),
              Yield(<<y1, y2>>),
              Return(<<<<1, 1>>, <<1, 2>>>>)>>),
      MkBlocks(<<1, 5>>, <<>>, <<>>, 1, <<2, 3, 4>>))
   : t1 \in 0..2, it \in 0..1, y1 \in {<<-1, 1>>, <<2, 1>>},
     y2 \in {<<-1, 2>>, <<2, 1>>, <<3, 1>>}}

\* An import (op 1) of MaxSize bytes, a subview of it (op 2), and an
\* async.execute (op 3) capturing two of: the subview, the import, a
\* function argument.  Its body is a dispatch on both block arguments that
\* ties the first or nothing, and a yield of the dispatch result.
SubviewRanges == {<<0, 1>>, <<1, 2>>}

SeedsCapture ==
  {LET size(v) == IF v = <<2, 1>> THEN r[2] ELSE MaxSize
   IN IR(MkOps(<<Import("transient"),
                 Subview(<<1, 1>>, "transient", MaxSize, r[1], r[2]),
                 Op("async.execute", <<a, b>>, <<0>>, <<"transient">>, "",
                    <<>>, <<size(a), size(b)>>),
                 Dispatch(<<<<-3, 1>>, <<-3, 2>>>>, <<it>>, <<"transient">>, ""),
                 Yield(<<<<4, 1>>>>),
                 Return(<<<<3, 1>>>>)>>),
         MkBlocks(<<1, 2, 3, 6>>, <<>>, <<>>, 3, <<4, 5>>))
   : r \in SubviewRanges, it \in 0..1,
     a \in {<<2, 1>>, <<1, 1>>, <<0, 1>>},
     b \in {<<2, 1>>, <<1, 1>>, <<0, 1>>}}

\* The await lists of at most MaxWaits timepoints, each function argument
\* 11 or 12 or the result of the timepoint.immediate op 1.
MaxWaits == 3

WaitLists ==
  UNION {[1..n -> {<<0, 11>>, <<0, 12>>, <<1, 0>>}] : n \in 0..MaxWaits}

\* An import (op 1) of MaxSize bytes and a subview of it (op 2); an await
\* (op 3) on function argument 11 of two resources, each the subview, the
\* import or a function argument; an await (op 4) of a function argument on
\* the same timepoint in the same block, or with another affinity, or on
\* another timepoint, or in the next block; and an await (op 5) on argument
\* 11 in the first block.  Every await result is returned.
AwaitPlacements ==
  {<<<<0, 11>>, "", FALSE>>, <<<<0, 11>>, "A", FALSE>>,
   <<<<0, 12>>, "", FALSE>>, <<<<0, 11>>, "", TRUE>>}

SeedsAwaitSubview ==
  {LET size(v) == IF v = <<2, 1>> THEN 2 ELSE MaxSize
       life(v) == IF v[1] = 0 THEN "external" ELSE "transient"
       far == pl[3]
       await3 == Op("timepoint.await", <<x1, x2>>, <<1, 2>>,
                    <<life(x1), life(x2)>>, "", << <<0, 11>> >>,
                    <<size(x1), size(x2)>>)
       await4 == Op("timepoint.await", << <<0, 1>> >>, <<1>>, <<"external">>,
                    pl[2], <<pl[1]>>, <<MaxSize>>)
       await5 == Op("timepoint.await", << <<0, 2>> >>, <<1>>, <<"constant">>,
                    "", << <<0, 11>> >>, <<MaxSize>>)
   IN IR(MkOps(<<Import("transient"),
                 Subview(<<1, 1>>, "transient", MaxSize, 1, 2),
                 await3, await4, await5,
                 Return(<<<<3, 1>>, <<3, 2>>, <<4, 1>>, <<5, 1>>>>)>>
               \o (IF far THEN <<Branch>> ELSE <<>>)),
         MkBlocks(IF far THEN <<1, 2, 3, 5, 7>> ELSE <<1, 2, 3, 4, 5, 6>>,
                  IF far THEN <<4, 6>> ELSE <<>>, <<>>, 0, <<>>))
   : x1 \in {<<2, 1>>, <<1, 1>>}, x2 \in {<<2, 1>>, <<0, 1>>},
     pl \in AwaitPlacements}

Join(tps) == Op("timepoint.join", <<>>, <<>>, <<>>, "", tps, <<>>)

\* A join (op 2) of a list of timepoints, a second join (op 3) of the first
\* and of a function argument, the immediate op 1 or the first join again,
\* and an await on the second join.
SeedsJoin ==
  {IR(MkOps(<<Immediate,
              Join(tps),
              Join(<<<<2, 0>>, x>>),
              Await(<<3, 0>>, <<<<0, 1>>>>, <<"external">>, ""),
              Export(<<4, 1>>),
              Return(<<>>)>>),
      MkBlocks(<<1, 2, 3, 4, 5, 6>>, <<>>, <<>>, 0, <<>>))
   : tps \in WaitLists, x \in {<<0, 11>>, <<1, 0>>, <<2, 0>>}}

CmdExecute(tps) == Op("cmd.execute", <<>>, <<>>, <<>>, "", tps, <<>>)

CmdDispatch == Op("cmd.dispatch", <<>>, <<>>, <<>>, "", <<>>, <<>>)

\* An async.execute or cmd.execute (op 2) that captures nothing and awaits
\* a list of timepoints; its body is a yield without operands, alone or
\* after one op (a splat nobody reads, or a cmd.dispatch).  An await on the
\* region's timepoint passes a function argument through to an export.
SeedsWaits ==
  {IR(MkOps(<<Immediate,
              IF k = "async" THEN Execute(<<>>, <<>>, <<>>, tps)
              ELSE CmdExecute(tps),
              IF k = "async" THEN Splat("transient", "") ELSE CmdDispatch,
              Yield(<<>>),
              Await(<<2, 0>>, <<<<0, 1>>>>, <<"external">>, ""),
              Export(<<5, 1>>),
              Return(<<>>)>>),
      MkBlocks(<<1, 2, 5, 6, 7>>, <<>>, <<>>, 2,
               IF work THEN <<3, 4>> ELSE <<4>>))
   : k \in {"async", "cmd"}, tps \in WaitLists, work \in BOOLEAN}

Copy(target, source, aff, attr) ==
  Op("async.copy", <<target, source>>, <<1>>, <<"transient">>, aff, <<>>, attr)

\* A copy of the bytes [so, se) of a source of ss bytes to offset to of a
\* target of MaxSize bytes, 0 <= so < se <= ss.
CopyRanges ==
  {r \in (1..MaxSize) \X (0..MaxSize) \X (0..MaxSize) :
     r[2] < r[3] /\ r[3] <= r[1]}

SeedsCopy ==
  {IR(MkOps(<<Import("transient"), Import("transient"),
              Copy(<<1, 1>>, <<2, 1>>, aff,
                   <<MaxSize + 1, to, to + (r[3] - r[2]),
                     r[1], r[2], r[3], r[3] - r[2]>>),
              Return(<<<<3, 1>>>>)>>),
      MkBlocks(<<1, 2, 3, 4>>, <<>>, <<>>, 0, <<>>))
   : aff \in {"", "A"}, to \in 0..1, r \in CopyRanges}

IndexArg(k) == -(MaxOps + k)

\* A resource.load or resource.store of one element at an offset of its
\* source (target); it has one result.
Load(source, size, offset) ==
  Op("resource.load", <<source>>, <<0>>, <<"value">>, "", <<>>,
     <<<<size, offset, 1>>>>)

Store(target, size, offset) ==
  Op("resource.store", <<target>>, <<1>>, <<"staging">>, "", <<>>,
     <<<<size, offset, 1>>>>)

\* An import (op 1) of MaxSize bytes, a subview of it (op 2) of two bytes, a
\* subview of one byte of that subview (op 3), and a load or store (op 4)
\* of one element of one of the three, at a constant offset within its
\* resource or at an offset that is an argument of the function.
SeedsSubview ==
  {LET size == IF x = 1 THEN MaxSize ELSE IF x = 2 THEN 2 ELSE 1
   IN IR(MkOps(<<Import("transient"),
                 Subview(<<1, 1>>, "transient", MaxSize, o1, 2),
                 Subview(<<2, 1>>, "transient", 2, o2, 1),
                 IF k = "load" THEN Load(<<x, 1>>, size, f)
                 ELSE Store(<<x, 1>>, size, f),
                 Return(<<<<4, 1>>, <<3, 1>>>>)>>),
         MkBlocks(<<1, 2, 3, 4, 5>>, <<>>, <<>>, 0, <<>>))
   : k \in {"load", "store"}, o1 \in {0, MaxSize - 2}, o2 \in {1, IndexArg(1)},
     x \in 1..3, f \in {0, 1, IndexArg(2)}}

\* A cmd.* op on resources, with <<size, offset, length>> for each.
Cmd(kind, resources, ranges) ==
  Op(kind, resources, <<>>, <<>>, "", <<>>, ranges)

CmdKinds ==
  {"cmd.flush", "cmd.invalidate", "cmd.discard", "cmd.fill", "cmd.copy",
   "cmd.dispatch"}

\* An import (op 1) of MaxSize bytes and a cmd.execute (op 2) capturing it
\* and a function argument.  In its body: a subview (op 3) of the first
\* block argument, of two bytes, at a constant offset or at an offset that
\* is an argument of the function; a subview (op 4) of one byte of that
\* subview; a cmd.* op (op 5) on one byte of one of the two subviews or of
\* the block argument, at offset 0 or 1, and for cmd.copy and cmd.dispatch
\* on a second resource: the first subview or the second block argument.
SeedsCmd ==
  {LET size(r) == IF r = <<4, 1>> THEN 1 ELSE IF r = <<3, 1>> THEN 2
                  ELSE MaxSize
       two == k \in {"cmd.copy", "cmd.dispatch"}
   IN IR(MkOps(<<Import("transient"),
                 Op("cmd.execute", <<<<1, 1>>, <<0, 1>>>>, <<>>, <<>>, "",
                    <<>>, <<MaxSize, MaxSize>>),
                 Subview(<<-2, 1>>, "transient", MaxSize, o1, 2),
                 Subview(<<3, 1>>, "transient", 2, 1, 1),
                 Cmd(k, IF two THEN <<r1, r2>> ELSE <<r1>>,
                     IF two THEN <<<<size(r1), f, 1>>, <<size(r2), 0, 1>>>>
                     ELSE <<<<size(r1), f, 1>>>>),
                 Yield(<<>>),
                 Return(<<>>)>>),
         MkBlocks(<<1, 2, 7>>, <<>>, <<>>, 2, <<3, 4, 5, 6>>))
   : k \in CmdKinds, o1 \in {MaxSize - 2, IndexArg(1)}, f \in 0..1,
     r1 \in {<<4, 1>>, <<3, 1>>, <<-2, 1>>}, r2 \in {<<3, 1>>, <<-2, 2>>}}

AsyncUpdate(target, update, aff, attr) ==
  Op("async.update", <<target, update>>, <<1>>, <<"transient">>, aff, <<>>,
     attr)

\* An import or a splat of MaxSize bytes (op 1), an import (op 2), a slice of
\* one byte of op 1 (op 3) and an update (op 4) of one byte of a target of
\* ts bytes (one byte when it is the slice); the target is op 2, the slice
\* or a function argument, the update
\* the slice or op 1.  The slice is after op 2, before it, in the entry block
\* with the update in a successor, or with the update in a successor and op 2
\* in the entry block.
SeedsUpdate ==
  {IR(MkOps(<<IF sk = "splat" THEN Splat("transient", "")
              ELSE Import("transient"),
              Import("transient"),
              AsyncSlice(<<1, 1>>, "transient", "", <<MaxSize, so, so + 1, 1>>),
              AsyncUpdate(tgt, upd, "",
                          <<IF tgt = <<3, 1>> THEN 1 ELSE ts, 0, 1, 1>>),
              Return(<<<<4, 1>>>>)>>
            \o (IF layout > 2 THEN <<Branch, Return(<<>>)>> ELSE <<>>)),
      MkBlocks(CASE layout = 1 -> <<1, 2, 3, 4, 5>>
                 [] layout = 2 -> <<1, 3, 2, 4, 5>>
                 [] layout = 3 -> <<1, 2, 3, 6>>
                 [] layout = 4 -> <<1, 2, 6>>,
               CASE layout < 3 -> <<>>
                 [] layout = 3 -> <<4, 5>>
                 [] layout = 4 -> <<3, 4, 5>>,
               IF layout > 2 THEN <<7>> ELSE <<>>, 0, <<>>))
   : sk \in {"import", "splat"}, so \in {0, MaxSize - 1},
     tgt \in {<<2, 1>>, <<0, 1>>, <<3, 1>>}, upd \in {<<3, 1>>, <<1, 1>>},
     ts \in {1, MaxSize}, layout \in 1..4}

\* One link of a chain over a value of size bytes: a clone, a slice of all
\* but the last byte, or a slice of the whole value.
ChainLinks == {"clone", "slice", "whole"}

ChainLink(k, v, size, aff) ==
  IF k = "clone"
  THEN Op("async.clone", <<v>>, <<0>>, <<"transient">>, aff, <<>>,
          <<size, size>>)
  ELSE IF k = "slice"
  THEN AsyncSlice(v, "transient", aff, <<size, 0, size - 1, size - 1>>)
  ELSE AsyncSlice(v, "transient", aff, <<size, 0, size, size>>)

SizeAfter(k, size) == IF k = "slice" THEN size - 1 ELSE size

\* An import of MaxSize + 1 bytes (op 1), a chain of three clones and slices
\* over it (ops 2 to 4), and a dispatch reading the end of the chain, tied or
\* not, and the first link.
SeedsSliceChain ==
  {IR(MkOps(<<Import("transient"),
              ChainLink(k2, <<1, 1>>, MaxSize + 1, ""),
              ChainLink(k3, <<2, 1>>, SizeAfter(k2, MaxSize + 1), "A"),
              ChainLink(k4, <<3, 1>>,
                        SizeAfter(k3, SizeAfter(k2, MaxSize + 1)), ""),
              Dispatch(<<<<4, 1>>, <<2, 1>>>>, <<t>>, <<"transient">>, ""),
              Return(<<<<5, 1>>>>)>>),
      MkBlocks(<<1, 2, 3, 4, 5, 6>>, <<>>, <<>>, 0, <<>>))
   : k2 \in ChainLinks, k3 \in ChainLinks, k4 \in ChainLinks, t \in 0..1}

\* The lifetime intervals of the slices of the packs.
Intervals == {<<0, 1>>, <<0, 2>>, <<1, 2>>}

\* The dynamic size of the slice stored at position k.
SliceSize(k) == IF k = 2 THEN IndexArg(2) ELSE k

\* A pack (op 1) of up to three slices with or without a base offset (0, 2
\* or an index argument); a subview (op 2) of a function argument at the
\* first packed offset, a subview of it (op 3) at the second, and an
\* addition (op 4) of the first and the third.  A slice the pack does not
\* have is replaced by total_length, which is also the size of op 2's source.
SeedsPack ==
  {IR(MkOps(<<Pack(off, [k \in 1..Len(iv) |-> <<iv[k][1], iv[k][2], SliceSize(k)>>],
                   aff),
              Subview(<<0, 1>>, "transient", PackResult(1, 1),
                      PackResult(1, IF Len(iv) >= 1 THEN 2 ELSE 1), 2),
              Subview(<<2, 1>>, "transient", 2,
                      PackResult(1, IF Len(iv) >= 2 THEN 3 ELSE 1), 1),
              AddI(PackResult(1, IF Len(iv) >= 1 THEN 2 ELSE 1),
                   PackResult(1, IF Len(iv) >= 3 THEN 4 ELSE 1)),
              Return(<<<<3, 1>>, <<2, 1>>>>)>>),
      MkBlocks(<<1, 2, 3, 4, 5>>, <<>>, <<>>, 0, <<>>))
   : off \in {<<>>, <<0>>, <<2>>, <<IndexArg(1)>>},
     iv \in UNION {[1..n -> Intervals] : n \in 0..3},
     aff \in {"", "A"}}

Seeds == SeedsCOW \cup SeedsSink \cup SeedsClone \cup SeedsAwait
           \cup SeedsExecute \cup SeedsCopy \cup SeedsTensorClone
           \cup SeedsWaits \cup SeedsTie \cup SeedsCapture \cup SeedsJoin
           \cup SeedsAwaitSubview

-----------------------------------------------------------------------------
(* The pattern applications.  Each action is one matchAndRewrite call on   *)
(* one op: on success the IR is rewritten, on failure it is left as it is; *)
(* either way the call and its LogicalResult are recorded in last.  A      *)
(* rewrite that would create more ops than the bounds allow is not taken.  *)

\* The patterns each getCanonicalizationPatterns registers for its op.
PatternsOf(kind) ==
  (IF kind \in ElideUnusedKinds THEN {"ElideUnusedOp"} ELSE {})
    \cup (IF kind \in MaterializeCOWKinds THEN {"MaterializeCOW"} ELSE {})
    \cup (IF kind = "async.splat" THEN {"SinkSplatsToConsumers"} ELSE {})
    \cup (IF kind = "async.clone"
          THEN {"PropagateClonableOps", "ElideUnneededAsyncClones"} ELSE {})
    \cup (IF kind = "tensor.clone"
          THEN {"TensorCloneFold", "ElideUnneededTensorClones"} ELSE {})
    \cup (IF kind = "async.copy" THEN {"AsyncCopyFullSourceToUpdate"} ELSE {})
    \cup (IF kind = "async.clone" THEN {"PropagateClonedSlices"} ELSE {})
    \cup (IF kind = "async.slice"
          THEN {"AsyncSliceFold", "PropagateSliceClones",
                "PropagateSplatsThroughSlices"} ELSE {})
    \cup (IF kind = "async.fill" THEN {"FlattenFullFillToSplat"} ELSE {})
    \cup (IF kind = "async.update"
          THEN {"AsyncUpdateFold", "CombineSplatUpdateFromToFill",
                "CombineSliceUpdateFromToCopy"} ELSE {})
    \cup (IF kind = "resource.pack"
          THEN {"ResourcePackFold", "PropagateResourcePackBaseOffset",
                "CanonicalizeResourcePackIntervals"} ELSE {})
    \cup (IF kind = "timepoint.await"
          THEN {"ElideImmediateAwaits", "SinkAwaitToFirstConsumer",
                "SinkSubviewsAcrossAwaits", "GroupAwaitsByTimepoint",
                "FoldDuplicateAwaitResources"} ELSE {})
    \cup (IF kind \in {"async.execute", "cmd.execute"}
          THEN {"ElideImmediateExecuteWaits", "ElideDuplicateExecuteWaits",
                "ChainExecuteWaits", "CloneCapturedExecuteSubviewOps",
                "ElideNoOpExecuteOp"} ELSE {})
    \cup (IF kind = "timepoint.join"
          THEN {"TimepointJoinFold", "ElideImmediateTimepointJoinOperands",
                "FoldDuplicateTimepointJoinOperands"} ELSE {})
    \cup (IF kind \in {"async.execute", "async.wave"}
          THEN {"TieRegionResults"} ELSE {})
    \cup (IF kind = "resource.load" THEN {"FoldSubviewIntoLoadOp"} ELSE {})
    \cup (IF kind = "resource.store" THEN {"FoldSubviewIntoStoreOp"} ELSE {})
    \cup (IF kind = "resource.subview" THEN {"FoldResourceSubviewOps"} ELSE {})
    \cup (IF kind = "cmd.flush" THEN {"FoldSubviewsIntoCmdFlushOp"} ELSE {})
    \cup (IF kind = "cmd.invalidate"
          THEN {"FoldCmdInSubviewsIntoCmdInvalidateOp"} ELSE {})
    \cup (IF kind = "cmd.discard"
          THEN {"FoldCmdSubviewsIntoCmdDiscardOp"} ELSE {})
    \cup (IF kind = "cmd.fill" THEN {"FoldSubviewsIntoCmdFillOp"} ELSE {})
    \cup (IF kind = "cmd.copy" THEN {"FoldSubviewsIntoCmdCopyOp"} ELSE {})
    \cup (IF kind = "cmd.dispatch"
          THEN {"FoldCmdSubviewsIntoCmdDispatchOp"} ELSE {})

\* Whether matchAndRewrite of the pattern returns success on op o.
Matches(pat, ir, o) ==
  CASE pat = "ElideUnusedOp" -> ElideUnusedMatch(ir, o)
    [] pat = "MaterializeCOW" -> MaterializeCOWMatch(ir, o)
    [] pat = "SinkSplatsToConsumers" -> SinkSplatsMatch(ir, o)
    [] pat = "SinkAwaitToFirstConsumer" -> SinkAwaitMatch(ir, o)
    [] pat = "PropagateClonableOps" -> PropagateClonableOpsMatch(ir, o)
    [] pat = "ElideUnneededAsyncClones" -> ElideUnneededAsyncClonesMatch(ir, o)
    [] pat = "TensorCloneFold" -> TensorCloneFoldMatch(ir, o)
    [] pat = "ElideUnneededTensorClones" ->
         ElideUnneededTensorClonesMatch(ir, o)
    [] pat = "AsyncCopyFullSourceToUpdate" ->
         AsyncCopyFullSourceToUpdateMatch(ir, o)
    [] pat = "PropagateClonedSlices" -> PropagateClonedSlicesMatch(ir, o)
    [] pat = "AsyncSliceFold" -> AsyncSliceFoldMatch(ir, o)
    [] pat = "PropagateSliceClones" -> PropagateSliceClonesMatch(ir, o)
    [] pat = "PropagateSplatsThroughSlices" ->
         PropagateSplatsThroughSlicesMatch(ir, o)
    [] pat = "FlattenFullFillToSplat" -> FlattenFullFillToSplatMatch(ir, o)
    [] pat = "AsyncUpdateFold" -> AsyncUpdateFoldMatch(ir, o)
    [] pat = "CombineSplatUpdateFromToFill" ->
         CombineSplatUpdateFromToFillMatch(ir, o)
    [] pat = "CombineSliceUpdateFromToCopy" ->
         CombineSliceUpdateFromToCopyMatch(ir, o)
    [] pat = "ResourcePackFold" -> ResourcePackFoldMatch(ir, o)
    [] pat = "PropagateResourcePackBaseOffset" ->
         PropagateResourcePackBaseOffsetMatch(ir, o)
    [] pat = "CanonicalizeResourcePackIntervals" ->
         CanonicalizeResourcePackIntervalsMatch(ir, o)
    [] pat = "ElideImmediateAwaits" -> ElideImmediateAwaitsMatch(ir, o)
    [] pat = "GroupAwaitsByTimepoint" -> GroupAwaitsByTimepointMatch(ir, o)
    [] pat = "SinkSubviewsAcrossAwaits" -> SinkSubviewsAcrossAwaitsMatch(ir, o)
    [] pat = "FoldDuplicateAwaitResources" ->
         FoldDuplicateAwaitResourcesMatch(ir, o)
    [] pat = "ElideImmediateExecuteWaits" ->
         ElideImmediateExecuteWaitsMatch(ir, o)
    [] pat = "ElideDuplicateExecuteWaits" ->
         ElideDuplicateExecuteWaitsMatch(ir, o)
    [] pat = "ChainExecuteWaits" -> ChainExecuteWaitsMatch(ir, o)
    [] pat = "CloneCapturedExecuteSubviewOps" ->
         CloneCapturedExecuteSubviewOpsMatch(ir, o)
    [] pat = "ElideNoOpExecuteOp" -> ElideNoOpExecuteOpMatch(ir, o)
    [] pat = "TieRegionResults" -> TieRegionResultsMatch(ir, o)
    [] pat = "TimepointJoinFold" -> TimepointJoinFoldMatch(ir, o)
    [] pat = "ElideImmediateTimepointJoinOperands" ->
         ElideImmediateTimepointJoinOperandsMatch(ir, o)
    [] pat = "FoldDuplicateTimepointJoinOperands" ->
         FoldDuplicateTimepointJoinOperandsMatch(ir, o)
    [] pat \in {"FoldSubviewIntoLoadOp", "FoldSubviewIntoStoreOp"} ->
         FoldSubviewIntoLoadOpMatch(ir, o)
    [] pat = "FoldResourceSubviewOps" -> FoldResourceSubviewOpsMatch(ir, o)
    [] pat \in {"FoldSubviewsIntoCmdFlushOp",
                "FoldCmdInSubviewsIntoCmdInvalidateOp",
                "FoldCmdSubviewsIntoCmdDiscardOp",
                "FoldSubviewsIntoCmdFillOp"} ->
         FoldSubviewsIntoCmdTOpMatch(ir, o)
    [] pat \in {"FoldSubviewsIntoCmdCopyOp",
                "FoldCmdSubviewsIntoCmdDispatchOp"} ->
         FoldSubviewsIntoCmdOpMatch(ir, o)

\* The IR the pattern leaves when it succeeds on op o.
Rewritten(pat, ir, o) ==
  CASE pat = "ElideUnusedOp" -> ElideUnusedRewrite(ir, o)
    [] pat = "MaterializeCOW" -> MaterializeCOWRewrite(ir, o)
    [] pat = "SinkSplatsToConsumers" -> SinkSplatsRewrite(ir, o)
    [] pat = "SinkAwaitToFirstConsumer" -> SinkAwaitRewrite(ir, o)
    [] pat = "PropagateClonableOps" -> PropagateClonableOpsRewrite(ir, o)
    [] pat = "ElideUnneededAsyncClones" ->
         ElideUnneededAsyncClonesRewrite(ir, o)
    [] pat \in {"TensorCloneFold", "ElideUnneededTensorClones"} ->
         ElideUnneededTensorClonesRewrite(ir, o)
    [] pat = "AsyncCopyFullSourceToUpdate" ->
         AsyncCopyFullSourceToUpdateRewrite(ir, o)
    [] pat = "PropagateClonedSlices" -> PropagateClonedSlicesRewrite(ir, o)
    [] pat = "AsyncSliceFold" -> AsyncSliceFoldRewrite(ir, o)
    [] pat = "PropagateSliceClones" -> PropagateSliceClonesRewrite(ir, o)
    [] pat = "PropagateSplatsThroughSlices" ->
         PropagateSplatsThroughSlicesRewrite(ir, o)
    [] pat = "FlattenFullFillToSplat" -> FlattenFullFillToSplatRewrite(ir, o)
    [] pat = "AsyncUpdateFold" -> AsyncUpdateFoldRewrite(ir, o)
    [] pat = "CombineSplatUpdateFromToFill" ->
         CombineSplatUpdateFromToFillRewrite(ir, o)
    [] pat = "CombineSliceUpdateFromToCopy" ->
         CombineSliceUpdateFromToCopyRewrite(ir, o)
    [] pat = "ResourcePackFold" -> ResourcePackFoldRewrite(ir, o)
    [] pat = "PropagateResourcePackBaseOffset" ->
         PropagateResourcePackBaseOffsetRewrite(ir, o)
    [] pat = "CanonicalizeResourcePackIntervals" ->
         CanonicalizeResourcePackIntervalsRewrite(ir, o)
    [] pat = "ElideImmediateAwaits" -> ElideImmediateAwaitsRewrite(ir, o)
    [] pat = "GroupAwaitsByTimepoint" -> GroupAwaitsByTimepointRewrite(ir, o)
    [] pat = "SinkSubviewsAcrossAwaits" ->
         SinkSubviewsAcrossAwaitsRewrite(ir, o)
    [] pat = "FoldDuplicateAwaitResources" ->
         FoldDuplicateAwaitResourcesRewrite(ir, o)
    [] pat = "ElideImmediateExecuteWaits" ->
         ElideImmediateExecuteWaitsRewrite(ir, o)
    [] pat = "ElideDuplicateExecuteWaits" ->
         ElideDuplicateExecuteWaitsRewrite(ir, o)
    [] pat = "ChainExecuteWaits" -> ChainExecuteWaitsRewrite(ir, o)
    [] pat = "CloneCapturedExecuteSubviewOps" ->
         CloneCapturedExecuteSubviewOpsRewrite(ir, o)
    [] pat = "ElideNoOpExecuteOp" -> ElideNoOpExecuteOpRewrite(ir, o)
    [] pat = "TieRegionResults" -> TieRegionResultsRewrite(ir, o)
    [] pat = "TimepointJoinFold" -> TimepointJoinFoldRewrite(ir, o)
    [] pat = "ElideImmediateTimepointJoinOperands" ->
         ElideImmediateTimepointJoinOperandsRewrite(ir, o)
    [] pat = "FoldDuplicateTimepointJoinOperands" ->
         FoldDuplicateTimepointJoinOperandsRewrite(ir, o)
    [] pat \in {"FoldSubviewIntoLoadOp", "FoldSubviewIntoStoreOp"} ->
         FoldSubviewIntoLoadOpRewrite(ir, o)
    [] pat = "FoldResourceSubviewOps" -> FoldResourceSubviewOpsRewrite(ir, o)
    [] pat \in {"FoldSubviewsIntoCmdFlushOp",
                "FoldCmdInSubviewsIntoCmdInvalidateOp",
                "FoldCmdSubviewsIntoCmdDiscardOp",
                "FoldSubviewsIntoCmdFillOp"} ->
         FoldSubviewsIntoCmdTOpRewrite(ir, o)
    [] pat \in {"FoldSubviewsIntoCmdCopyOp",
                "FoldCmdSubviewsIntoCmdDispatchOp"} ->
         FoldSubviewsIntoCmdOpRewrite(ir, o)

\* The number of ops the rewrite creates.
Cost(pat, ir, o) ==
  CASE pat = "MaterializeCOW" -> MaterializeCOWCost(ir, o)
    [] pat = "PropagateClonableOps" -> PropagateClonableOpsCost(ir, o)
    [] pat \in {"AsyncCopyFullSourceToUpdate", "GroupAwaitsByTimepoint",
                "ElideNoOpExecuteOp", "FoldDuplicateAwaitResources",
                "PropagateClonedSlices", "PropagateSliceClones",
                "PropagateSplatsThroughSlices", "FlattenFullFillToSplat",
                "CombineSplatUpdateFromToFill",
                "CombineSliceUpdateFromToCopy"} -> 1
    [] pat = "SinkSubviewsAcrossAwaits" ->
         Cardinality(SubviewOperands(ir, o))
    [] pat = "PropagateResourcePackBaseOffset" ->
         PropagateResourcePackBaseOffsetCost(ir, o)
    [] pat = "CanonicalizeResourcePackIntervals" -> 1
    [] pat = "CloneCapturedExecuteSubviewOps" -> Cardinality(Captures(ir, o))
    [] pat \in {"TimepointJoinFold", "ElideImmediateTimepointJoinOperands"} ->
         JoinCost(ir, o)
    [] pat \in {"FoldSubviewIntoLoadOp", "FoldSubviewIntoStoreOp"} ->
         AddICost(ir, o, {1})
    [] pat = "FoldResourceSubviewOps" -> FoldResourceSubviewOpsCost(ir, o)
    [] pat \in {"FoldSubviewsIntoCmdFlushOp",
                "FoldCmdInSubviewsIntoCmdInvalidateOp",
                "FoldCmdSubviewsIntoCmdDiscardOp",
                "FoldSubviewsIntoCmdFillOp"} -> AddICost(ir, o, {1})
    [] pat \in {"FoldSubviewsIntoCmdCopyOp",
                "FoldCmdSubviewsIntoCmdDispatchOp"} ->
         AddICost(ir, o, SubviewSlots(ir, o))
    [] OTHER -> 0

\* The target handed to sinkOp / findInsertionPointBefore, 0 if none.
SinkTarget(pat, ir, o) ==
  IF pat = "SinkSplatsToConsumers" /\ SinkSplatsHasUsers(ir, o)
  THEN SinkSplatsTarget(ir, o)
  ELSE IF pat = "SinkAwaitToFirstConsumer" /\ AwaitUsers(ir, o) # {}
  THEN SinkAwaitTarget(ir, o)
  ELSE 0

WithinBounds(ir, n, cost) ==
  /\ cost <= Cardinality(FreeIds(ir))
  /\ n + cost <= MaxCreated

\* The patterns that run their loop over results or operands first and
\* return success or failure by a flag the loop has set; every other pattern
\* returns failure before its first call of the rewriter.
FlagPatterns == {"MaterializeCOW", "TieRegionResults", "SinkSubviewsAcrossAwaits"}

\* The IR a matchAndRewrite call leaves.
Outcome(pat, ir, o) ==
  IF Matches(pat, ir, o) \/ pat \in FlagPatterns
  THEN Rewritten(pat, ir, o) ELSE ir

\* One matchAndRewrite call of pattern pat on op o; last records the call.
Call(pat, o) ==
  /\ pat \in PatternsOf(ops[o].kind)
  /\ \E ok \in {Matches(pat, Cur, o)} :
      \E cost \in {IF ok THEN Cost(pat, Cur, o) ELSE 0} :
         /\ ok => WithinBounds(Cur, created, cost)
         /\ \E ir2 \in {Outcome(pat, Cur, o)} :
               /\ last' = [pat |-> pat, op |-> o, ok |-> ok,
                           target |-> SinkTarget(pat, Cur, o),
                           n |-> IF ok THEN 1 - last.n ELSE last.n]
               /\ created' = created + cost
               /\ ops' = ir2.ops
               /\ blocks' = ir2.blocks

ElideUnusedOp == \E o \in Live(Cur) : Call("ElideUnusedOp", o)

MaterializeCOW == \E o \in Live(Cur) : Call("MaterializeCOW", o)

SinkSplatsToConsumers == \E o \in Live(Cur) : Call("SinkSplatsToConsumers", o)

SinkAwaitToFirstConsumer == \E o \in Live(Cur) : Call("SinkAwaitToFirstConsumer", o)

PropagateClonableOps == \E o \in Live(Cur) : Call("PropagateClonableOps", o)

ElideUnneededAsyncClones == \E o \in Live(Cur) : Call("ElideUnneededAsyncClones", o)

TensorCloneFold == \E o \in Live(Cur) : Call("TensorCloneFold", o)

ElideUnneededTensorClones == \E o \in Live(Cur) : Call("ElideUnneededTensorClones", o)

AsyncCopyFullSourceToUpdate == \E o \in Live(Cur) : Call("AsyncCopyFullSourceToUpdate", o)

ElideImmediateAwaits == \E o \in Live(Cur) : Call("ElideImmediateAwaits", o)

GroupAwaitsByTimepoint == \E o \in Live(Cur) : Call("GroupAwaitsByTimepoint", o)

SinkSubviewsAcrossAwaits == \E o \in Live(Cur) : Call("SinkSubviewsAcrossAwaits", o)

FoldDuplicateAwaitResources == \E o \in Live(Cur) : Call("FoldDuplicateAwaitResources", o)

ElideImmediateExecuteWaits == \E o \in Live(Cur) : Call("ElideImmediateExecuteWaits", o)

ElideDuplicateExecuteWaits == \E o \in Live(Cur) : Call("ElideDuplicateExecuteWaits", o)

ElideNoOpExecuteOp == \E o \in Live(Cur) : Call("ElideNoOpExecuteOp", o)

CloneCapturedExecuteSubviewOps == \E o \in Live(Cur) : Call("CloneCapturedExecuteSubviewOps", o)

ChainExecuteWaits == \E o \in Live(Cur) : Call("ChainExecuteWaits", o)

TieRegionResults == \E o \in Live(Cur) : Call("TieRegionResults", o)

TimepointJoinFold == \E o \in Live(Cur) : Call("TimepointJoinFold", o)

ElideImmediateTimepointJoinOperands == \E o \in Live(Cur) : Call("ElideImmediateTimepointJoinOperands", o)

FoldDuplicateTimepointJoinOperands == \E o \in Live(Cur) : Call("FoldDuplicateTimepointJoinOperands", o)

FoldSubviewIntoLoadOp == \E o \in Live(Cur) : Call("FoldSubviewIntoLoadOp", o)

FoldSubviewIntoStoreOp == \E o \in Live(Cur) : Call("FoldSubviewIntoStoreOp", o)

FoldResourceSubviewOps == \E o \in Live(Cur) : Call("FoldResourceSubviewOps", o)

FoldSubviewsIntoCmdFlushOp == \E o \in Live(Cur) : Call("FoldSubviewsIntoCmdFlushOp", o)

FoldCmdInSubviewsIntoCmdInvalidateOp == \E o \in Live(Cur) : Call("FoldCmdInSubviewsIntoCmdInvalidateOp", o)

FoldCmdSubviewsIntoCmdDiscardOp == \E o \in Live(Cur) : Call("FoldCmdSubviewsIntoCmdDiscardOp", o)

FoldSubviewsIntoCmdFillOp == \E o \in Live(Cur) : Call("FoldSubviewsIntoCmdFillOp", o)

FoldSubviewsIntoCmdCopyOp == \E o \in Live(Cur) : Call("FoldSubviewsIntoCmdCopyOp", o)

FoldCmdSubviewsIntoCmdDispatchOp == \E o \in Live(Cur) : Call("FoldCmdSubviewsIntoCmdDispatchOp", o)

PropagateClonedSlices == \E o \in Live(Cur) : Call("PropagateClonedSlices", o)

AsyncSliceFold == \E o \in Live(Cur) : Call("AsyncSliceFold", o)

PropagateSliceClones == \E o \in Live(Cur) : Call("PropagateSliceClones", o)

PropagateSplatsThroughSlices ==
  \E o \in Live(Cur) : Call("PropagateSplatsThroughSlices", o)

FlattenFullFillToSplat ==
  \E o \in Live(Cur) : Call("FlattenFullFillToSplat", o)

AsyncUpdateFold == \E o \in Live(Cur) : Call("AsyncUpdateFold", o)

CombineSplatUpdateFromToFill ==
  \E o \in Live(Cur) : Call("CombineSplatUpdateFromToFill", o)

CombineSliceUpdateFromToCopy ==
  \E o \in Live(Cur) : Call("CombineSliceUpdateFromToCopy", o)

ResourcePackFold == \E o \in Live(Cur) : Call("ResourcePackFold", o)

PropagateResourcePackBaseOffset ==
  \E o \in Live(Cur) : Call("PropagateResourcePackBaseOffset", o)

CanonicalizeResourcePackIntervals ==
  \E o \in Live(Cur) : Call("CanonicalizeResourcePackIntervals", o)

Init ==
  /\ \E ir \in Seeds : ops = ir.ops /\ blocks = ir.blocks
  /\ last = [pat |-> "", op |-> 0, ok |-> FALSE, target |-> 0, n |-> 0]
  /\ created = 0

Next ==
  \/ ElideUnusedOp
  \/ MaterializeCOW
  \/ SinkSplatsToConsumers
  \/ SinkAwaitToFirstConsumer
  \/ PropagateClonableOps
  \/ ElideUnneededAsyncClones
  \/ TensorCloneFold
  \/ ElideUnneededTensorClones
  \/ AsyncCopyFullSourceToUpdate
  \/ ElideImmediateAwaits
  \/ GroupAwaitsByTimepoint
  \/ SinkSubviewsAcrossAwaits
  \/ FoldDuplicateAwaitResources
  \/ ElideImmediateExecuteWaits
  \/ ElideDuplicateExecuteWaits
  \/ ChainExecuteWaits
  \/ CloneCapturedExecuteSubviewOps
  \/ ElideNoOpExecuteOp
  \/ TieRegionResults
  \/ TimepointJoinFold
  \/ ElideImmediateTimepointJoinOperands
  \/ FoldDuplicateTimepointJoinOperands

Spec == Init /\ [][Next]_vars

-----------------------------------------------------------------------------
(* The programs that fold subviews, under every pattern registered for the *)
(* ops they hold.                                                          *)

FoldSeeds == SeedsSubview \cup SeedsCmd

FoldInit ==
  /\ \E ir \in FoldSeeds : ops = ir.ops /\ blocks = ir.blocks
  /\ last = [pat |-> "", op |-> 0, ok |-> FALSE, target |-> 0, n |-> 0]
  /\ created = 0

FoldNext ==
  \/ ElideUnusedOp
  \/ MaterializeCOW
  \/ FoldSubviewIntoLoadOp
  \/ FoldSubviewIntoStoreOp
  \/ FoldResourceSubviewOps
  \/ FoldSubviewsIntoCmdFlushOp
  \/ FoldCmdInSubviewsIntoCmdInvalidateOp
  \/ FoldCmdSubviewsIntoCmdDiscardOp
  \/ FoldSubviewsIntoCmdFillOp
  \/ FoldSubviewsIntoCmdCopyOp
  \/ FoldCmdSubviewsIntoCmdDispatchOp
  \/ ElideImmediateExecuteWaits
  \/ ElideDuplicateExecuteWaits
  \/ ChainExecuteWaits
  \/ CloneCapturedExecuteSubviewOps
  \/ ElideNoOpExecuteOp

FoldSpec == FoldInit /\ [][FoldNext]_vars

\* Programs of clones, slices and updates, with every pattern registered for
\* the ops they hold or come to hold.
SliceSeeds == SeedsUpdate \cup SeedsSliceChain

SliceInit ==
  /\ \E ir \in SliceSeeds : ops = ir.ops /\ blocks = ir.blocks
  /\ last = [pat |-> "", op |-> 0, ok |-> FALSE, target |-> 0, n |-> 0]
  /\ created = 0

SliceNext ==
  \/ ElideUnusedOp
  \/ MaterializeCOW
  \/ SinkSplatsToConsumers
  \/ PropagateClonableOps
  \/ PropagateClonedSlices
  \/ ElideUnneededAsyncClones
  \/ AsyncSliceFold
  \/ PropagateSliceClones
  \/ PropagateSplatsThroughSlices
  \/ FlattenFullFillToSplat
  \/ AsyncUpdateFold
  \/ CombineSplatUpdateFromToFill
  \/ CombineSliceUpdateFromToCopy
  \/ AsyncCopyFullSourceToUpdate

SliceSpec == SliceInit /\ [][SliceNext]_vars

\* Programs around a resource.pack, with every pattern and fold registered
\* for the ops they hold.
PackInit ==
  /\ \E ir \in SeedsPack : ops = ir.ops /\ blocks = ir.blocks
  /\ last = [pat |-> "", op |-> 0, ok |-> FALSE, target |-> 0, n |-> 0]
  /\ created = 0

PackNext ==
  \/ ResourcePackFold
  \/ PropagateResourcePackBaseOffset
  \/ CanonicalizeResourcePackIntervals
  \/ FoldResourceSubviewOps

PackSpec == PackInit /\ [][PackNext]_vars

-----------------------------------------------------------------------------
(* The fixed point: every registered pattern returns failure on every op.  *)

Quiescent(ir) ==
  \A o \in Live(ir) : \A pat \in PatternsOf(ir.ops[o].kind) :
    ~Matches(pat, ir, o)

\* The IR after the step.
Post == IR(ops', blocks')

-----------------------------------------------------------------------------
(* SSA dominance.  Blocks 2 and 3 are the successors of the entry block 1; *)
(* the body of a region sees what dominates the op holding the region.     *)

RECURSIVE Encloses(_, _, _)
Encloses(ir, e, o) ==
  LET b == BlockOf(ir, o)
  IN \/ b = Body(e)
     \/ b > NBlocks /\ Encloses(ir, e, b - NBlocks)

RECURSIVE ProperlyDominates(_, _, _)
ProperlyDominates(ir, d, o) ==
  LET bd == BlockOf(ir, d)
      bo == BlockOf(ir, o)
  IN IF bd = bo THEN Pos(ir, d) < Pos(ir, o)
     ELSE IF bo > NBlocks THEN ProperlyDominates(ir, d, bo - NBlocks)
     ELSE bd = 1

Dominates(ir, v, o) ==
  IF v[1] = 0 THEN TRUE
  ELSE IF v[1] < 0 THEN Encloses(ir, -v[1], o)
  ELSE v[1] \in Live(ir) /\ ProperlyDominates(ir, v[1], o)

DominanceHolds(ir) ==
  \A o \in Live(ir) :
    \A v \in Range(ir.ops[o].operands) \cup Range(ir.ops[o].tps) :
      Dominates(ir, v, o)

-----------------------------------------------------------------------------
(* Copy-on-write: the classification of the uses of a value, stated on the *)
(* IR alone.                                                               *)

TiedSlots(ir, v) ==
  {us \in UsesOf(ir, v) : \E r \in 1..Len(ir.ops[us[1]].tied) :
                            ir.ops[us[1]].tied[r] = us[2]}

AwaitSlots(ir, v) ==
  {us \in UsesOf(ir, v) : ir.ops[us[1]].kind = "timepoint.await"}

\* Every use counts; a use by an await counts as an untied one (counted as
\* a tied one, the same values and more fall outside the condition).
EveryUseSettled(ir, v) ==
  LET tied == TiedSlots(ir, v) \ AwaitSlots(ir, v)
      untied == UsesOf(ir, v) \ tied
  IN \/ tied = {}
     \/ Cardinality(tied) = 1 /\ untied = {} /\ LifeOf(ir, v) # "constant"

\* The uses by awaits do not count.
OtherUsesSettled(ir, v) ==
  LET tied == TiedSlots(ir, v) \ AwaitSlots(ir, v)
      untied == (UsesOf(ir, v) \ AwaitSlots(ir, v)) \ tied
  IN \/ tied = {}
     \/ Cardinality(tied) = 1 /\ untied = {} /\ LifeOf(ir, v) # "constant"

\* The slots of the op the call is on that hold it after the step as before.
Untouched(v) == UsesOf(Post, v) = UsesOf(Cur, v)

\* The step is a call of pattern pat (a call that fails twice in a row on the
\* same op changes nothing at all the second time).
Called(pat) == last' # last /\ last'.pat = pat

-----------------------------------------------------------------------------
(* findInsertionPointBefore / sinkOp                                       *)

IsSinkCall ==
  /\ last' # last
  /\ last'.pat \in {"SinkSplatsToConsumers", "SinkAwaitToFirstConsumer"}
  /\ last'.target # 0
  /\ BlockOf(Cur, last'.op) = BlockOf(Cur, last'.target)

\* Every op strictly between op and target produces an operand of target.
BetweenAreProducers(ir, op, target) ==
  LET b == ir.blocks[BlockOf(ir, op)]
  IN \A p \in (Pos(ir, op) + 1)..(Pos(ir, target) - 1) :
       \E v \in Range(ir.ops[target].operands) \cup Range(ir.ops[target].tps) :
         v[1] = b[p]

ImmediatelyBefore(ir, op, target) ==
  /\ BlockOf(ir, op) = BlockOf(ir, target)
  /\ Pos(ir, op) + 1 = Pos(ir, target)

\* C8: for op and target in one block, sinkOp fails and leaves op in place
\* if every op strictly between the two produces an operand of target, and
\* otherwise moves op immediately before target and succeeds; it succeeds
\* only when the position of op changed.
C8_SinkOpGuard ==
  [][IsSinkCall =>
       /\ IF BetweenAreProducers(Cur, last'.op, last'.target)
          THEN ~last'.ok /\ blocks' = blocks
          ELSE last'.ok /\ ImmediatelyBefore(Post, last'.op, last'.target)
       /\ last'.ok => blocks' # blocks]_vars

\* sinkOp is called on an op that stands immediately before a target that
\* does not use it, and returns success.
C8_SinkInPlaceSucceeds ==
  /\ last.ok
  /\ last.pat \in {"SinkSplatsToConsumers", "SinkAwaitToFirstConsumer"}
  /\ last.target # 0
  /\ last.op \in Live(Cur) /\ last.target \in Live(Cur)
  /\ ImmediatelyBefore(Cur, last.op, last.target)
  /\ last.op \notin UsersOf(Cur, <<last.target, 1>>)
  /\ \A v \in Range(ops[last.target].operands) : v[1] # last.op

-----------------------------------------------------------------------------
(* Termination                                                             *)

\* C3: every run of successful pattern applications is finite.  A successful
\* application that leaves the IR exactly as it was succeeds again on the
\* same op without end, so termination needs every successful application to
\* change the IR, also when the op already stands immediately before its
\* sink target.
C3_Termination == [][(last' # last /\ last'.ok) => Post # Cur]_vars

\* A splat or await that is not used in the block of its sink target stands
\* immediately before that block's terminator, and the pattern has moved it
\* there once more.
C3_SunkToTerminator ==
  /\ last.ok
  /\ last.pat \in {"SinkSplatsToConsumers", "SinkAwaitToFirstConsumer"}
  /\ last.target # 0
  /\ last.op \in Live(Cur) /\ last.target \in Live(Cur)
  /\ ImmediatelyBefore(Cur, last.op, last.target)
  /\ last.target = Terminator(Cur, BlockOf(Cur, last.target))
  /\ Matches(last.pat, Cur, last.op)

-----------------------------------------------------------------------------
(* GroupAwaitsByTimepoint                                                  *)

\* C5: GroupAwaitsByTimepoint preserves SSA dominance: after the merge every
\* operand of every op, those of the merged await included, is defined at a
\* point that dominates the op, and so is every use of the old results.
C5_GroupAwaitsKeepsDominance ==
  [][(Called("GroupAwaitsByTimepoint") /\ last'.ok /\ DominanceHolds(Cur))
       => DominanceHolds(Post)]_vars

\* A merged await reads a value that is defined after it in its block.
C5_MergedAwaitBeforeOperand ==
  /\ last.ok /\ last.pat = "GroupAwaitsByTimepoint"
  /\ \E o \in Live(Cur) :
       /\ ops[o].kind = "timepoint.await"
       /\ \E v \in Range(ops[o].operands) :
            /\ v[1] > 0 /\ v[1] \in Live(Cur)
            /\ BlockOf(Cur, v[1]) = BlockOf(Cur, o)
            /\ Pos(Cur, o) < Pos(Cur, v[1])

-----------------------------------------------------------------------------
(* ChainAsyncExecuteWaits / ChainCmdExecuteWaits                           *)

NoDuplicates(seq) == \A i, j \in 1..Len(seq) : seq[i] = seq[j] => i = j

\* C6: when an operand of an execute region is a result of
\* timepoint.await(tp, x, ...), the rewrite replaces the operand with x and
\* adds tp to the region's await_timepoints, without duplicating an entry.
C6_ChainAwaitsAddsTimepoint ==
  [][(Called("ChainExecuteWaits") /\ last'.ok) =>
       LET o == last'.op
       IN \A s \in 1..Len(ops[o].operands) :
            LET v == ops[o].operands[s]
            IN (v[1] > 0 /\ ops[v[1]].kind = "timepoint.await") =>
                 /\ ops'[o].operands[s] = ops[v[1]].operands[v[2]]
                 /\ ops[v[1]].tps[1] \in Range(ops'[o].tps)
                 /\ NoDuplicates(ops[o].tps) => NoDuplicates(ops'[o].tps)]_vars

\* The rewrite has replaced an awaited operand of a region whose await list
\* is empty.
C6_ChainedWithoutTimepoint ==
  /\ last.ok /\ last.pat = "ChainExecuteWaits"
  /\ last.op \in Live(Cur)
  /\ ops[last.op].tps = <<>>

-----------------------------------------------------------------------------
(* AsyncCopyFullSourceToUpdate                                             *)

\* C7: an async.copy is rewritten to an async.update exactly when its source
\* range is the whole source (it starts at offset 0 and ends at source_size);
\* the update keeps the copy's target, target_size, target_offset,
\* target_end, tied operands and affinity.
C7_CopyToUpdateOnWholeSource ==
  [][Called("AsyncCopyFullSourceToUpdate") =>
       LET c == ops[last'.op]
       IN /\ last'.ok <=>
               (SourceOffset(c) = 0 /\ SourceEnd(c) = SourceSize(c))
          /\ last'.ok =>
               \E u \in Live(Post) \ Live(Cur) :
                 /\ ops'[u].kind = "async.update"
                 /\ ops'[u].operands[1] = c.operands[1]
                 /\ SubSeq(ops'[u].attr, 1, 3) = SubSeq(c.attr, 1, 3)
                 /\ ops'[u].tied = c.tied
                 /\ ops'[u].aff = c.aff]_vars

\* An update made from a copy whose source range did not start at offset 0
\* (the update spans the whole source, from target_offset).
C7_PartialCopyRewritten ==
  /\ last.ok /\ last.pat = "AsyncCopyFullSourceToUpdate"
  /\ \E u \in Live(Cur) :
       /\ ops[u].kind = "async.update"
       /\ TargetEnd(ops[u]) - TargetOffset(ops[u]) < UpdateSize(ops[u])

-----------------------------------------------------------------------------
(* MaterializeCOW                                                          *)

CalledCow == Called("MaterializeCOW")

\* C9 as stated: MaterializeCOW classifies every use of a resource result,
\* a use by a timepoint.await like any other, and does nothing for the result
\* if and only if there is no tied use, or one tied use, no untied use and
\* the lifetime is not Constant; it fails iff it did nothing for every result.
C9_EveryUseClassified ==
  [][CalledCow =>
       LET vs == ResourceResults(Cur, last'.op)
       IN /\ \A v \in vs : Untouched(v) <=> EveryUseSettled(Cur, v)
          /\ ~last'.ok <=> \A v \in vs : EveryUseSettled(Cur, v)]_vars

\* C9: MaterializeCOW classifies every use of a resource result that is not
\* a use by a timepoint.await as tied or untied, and does nothing for the
\* result if and only if there is no tied use, or one tied use, no untied use
\* and the lifetime is not Constant; it fails iff it did nothing for every
\* result of the op.
C9_UsesOutsideAwaitsClassified ==
  [][CalledCow =>
       LET vs == ResourceResults(Cur, last'.op)
       IN /\ \A v \in vs : Untouched(v) <=> OtherUsesSettled(Cur, v)
          /\ ~last'.ok <=> \A v \in vs : OtherUsesSettled(Cur, v)]_vars

\* MaterializeCOW has failed on an op whose result is read by an await and
\* by one consumer that ties it.
C9_FailedBesideAwait ==
  /\ last.pat = "MaterializeCOW" /\ ~last.ok
  /\ \E v \in ResourceResults(Cur, last.op) :
       /\ AwaitSlots(Cur, v) # {}
       /\ Cardinality(TiedSlots(Cur, v) \ AwaitSlots(Cur, v)) = 1
       /\ LifeOf(Cur, v) # "constant"

\* The slots MaterializeCOW gives a clone: the tied uses, outside awaits, of
\* the results it does not leave alone.
ClonedSlots(ir, o) ==
  UNION {TiedSlots(ir, v) \ AwaitSlots(ir, v) :
           v \in {w \in ResourceResults(ir, o) : ~OtherUsesSettled(ir, w)}}

\* Only ops created by the step stand between op c and op u of one block.
OnlyNewBetween(c, u) ==
  /\ BlockOf(Post, c) = BlockOf(Post, u)
  /\ Pos(Post, c) < Pos(Post, u)
  /\ \A p \in (Pos(Post, c) + 1)..(Pos(Post, u) - 1) :
       blocks'[BlockOf(Post, u)][p] \notin Live(Cur)

-----------------------------------------------------------------------------
(* Copy-on-write at the fixed point                                        *)

-----------------------------------------------------------------------------
(* Ties on Constant resources                                              *)

\* No result of an op other than an await is tied to an operand of Constant
\* lifetime.
NoConstantTie(ir) ==
  \A u \in Live(ir) :
    ir.ops[u].kind # "timepoint.await" =>
      \A r \in 1..Len(ir.ops[u].tied) :
        ir.ops[u].tied[r] # 0 =>
          LifeOf(ir, ir.ops[u].operands[ir.ops[u].tied[r]]) # "constant"

-----------------------------------------------------------------------------
(* MaterializeCOW does not trigger again                                   *)

\* C11: after MaterializeCOW has succeeded on an op, MaterializeCOW fails on
\* that op and on each async.clone it inserted, and neither
\* ElideUnneededAsyncClones nor ElideUnusedOp succeeds on an inserted clone,
\* whose consumer ties it.
C11_CowDoesNotRetrigger ==
  [][(CalledCow /\ last'.ok) =>
       /\ ~Matches("MaterializeCOW", Post, last'.op)
       /\ \A c \in Live(Post) \ Live(Cur) :
            /\ TiedSlots(Post, <<c, 1>>) # {}
            /\ ~Matches("MaterializeCOW", Post, c)
            /\ ~Matches("ElideUnneededAsyncClones", Post, c)
            /\ ~Matches("ElideUnusedOp", Post, c)]_vars

\* After MaterializeCOW has succeeded, a call of a clone pattern on a clone
\* it inserted has failed.
C11_ClonePatternFailedOnCowClone ==
  /\ last.pat \in {"ElideUnneededAsyncClones", "ElideUnusedOp"} /\ ~last.ok
  /\ last.op \in Live(Cur)
  /\ ops[last.op].kind = "async.clone"
  /\ ops[last.op].life = <<"unknown">>
  /\ TiedSlots(Cur, <<last.op, 1>>) # {}

\* C12: a tensor.clone or async.clone is replaced by its source only if
\* neither the clone's result nor the clone's source has a tied use; a clone
\* whose source is overwritten in place by a tied consumer is kept.
C12_CloneElisionGuard ==
  [][((Called("ElideUnneededTensorClones") \/ Called("ElideUnneededAsyncClones"))
        /\ last'.ok) =>
       /\ ~HasAnyTiedUses(Cur, <<last'.op, 1>>)
       /\ ~HasAnyTiedUses(Cur, ops[last'.op].operands[1])]_vars

\* A tensor.clone has been replaced by its source although a tensor.update
\* overwrites that source in place: the former reader of the clone now reads
\* the value the update ties.
C12_TensorCloneOfTiedSourceElided ==
  /\ last.pat = "ElideUnneededTensorClones" /\ last.ok
  /\ last.op \notin Live(Cur)
  /\ \E u \in Live(Cur) : \E w \in Live(Cur) \ {u} :
       /\ ops[u].kind = "tensor.update" /\ ops[w].kind = "tensor.update"
       /\ ops[u].operands[1] = <<1, 1>>
       /\ ops[w].operands[2] = <<1, 1>>

\* The op is an execute region whose single block holds only a yield
\* without operands.
IsNoOpRegion(ir, o) ==
  /\ Len(ir.blocks[Body(o)]) = 1
  /\ ir.ops[ir.blocks[Body(o)][1]].kind = "yield"
  /\ ir.ops[ir.blocks[Body(o)][1]].operands = <<>>

\* C13: an async.execute or cmd.execute is replaced by timepoint.immediate
\* (every use of its result timepoint rerouted, the region erased) if and
\* only if its block holds only a yield with no operands; otherwise the
\* pattern returns failure and the op is unchanged.
C13_NoOpExecuteElision ==
  [][Called("ElideNoOpExecuteOp") =>
       LET o == last'.op
           b == BlockOf(Cur, o)
       IN /\ last'.ok <=> IsNoOpRegion(Cur, o)
          /\ ~last'.ok => Post = Cur
          /\ last'.ok =>
                \E new \in Live(Post) \ Live(Cur) :
                  /\ Live(Post) = (Live(Cur) \ ({o} \cup Range(blocks[Body(o)])))
                                     \cup {new}
                  /\ ops'[new] = Immediate
                  /\ blocks'[Body(o)] = <<>>
                  /\ blocks'[b] = [p \in 1..Len(blocks[b]) |->
                                     IF blocks[b][p] = o THEN new
                                     ELSE blocks[b][p]]
                  /\ TpUsesOf(Post, <<o, 0>>) = {}
                  /\ TpUsesOf(Cur, <<o, 0>>) # {}
                       => TpUsesOf(Post, <<new, 0>>) = TpUsesOf(Cur, <<o, 0>>)
                  /\ \A u \in Live(Post) \ {new} :
                       /\ ops'[u].operands = ops[u].operands
                       /\ \A t \in 1..Len(ops[u].tps) :
                            ops[u].tps[t] # <<o, 0>>
                              => ops'[u].tps[t] = ops[u].tps[t]]_vars

\* An execute region without work has been replaced by a timepoint.immediate
\* that an await now waits on.
C13_AwaitOnNewImmediate ==
  /\ last.pat = "ElideNoOpExecuteOp" /\ last.ok
  /\ \E a \in Live(Cur) :
       /\ ops[a].kind = "timepoint.await"
       /\ ops[a].tps[1][1] \in Live(Cur) \ {1}
       /\ IsImmediate(Cur, ops[a].tps[1])

\* C14: TieRegionResults ties every result that is not tied yet and whose
\* yielded value is based on block argument k of the region to operand k,
\* the operand that feeds that block argument; a result that is tied keeps
\* its tie, a result whose base value is not a block argument stays untied,
\* and the pattern fails when applied again.
C14_TieRegionResults ==
  [][Called("TieRegionResults") =>
       LET o == last'.op
           yielded == ops[Terminator(Cur, Body(o))].operands
           base(r) == FindTiedBaseValue(Cur, yielded[r])
           fresh == {r \in 1..Len(yielded) :
                       ops[o].tied[r] = 0 /\ base(r)[1] = -o}
       IN /\ last'.ok <=> fresh # {}
          /\ blocks' = blocks
          /\ ops' = [ops EXCEPT ![o].tied = ops'[o].tied]
          /\ Len(ops'[o].tied) = Len(yielded)
          /\ \A r \in 1..Len(yielded) :
               /\ r \in fresh =>
                    /\ ops'[o].tied[r] = base(r)[2]
                    /\ base(r)[2] \in 1..Len(ops[o].operands)
               /\ ops[o].tied[r] # 0 => ops'[o].tied[r] = ops[o].tied[r]
               /\ (ops[o].tied[r] = 0 /\ base(r)[1] >= 0)
                    => ops'[o].tied[r] = 0
          /\ ~Matches("TieRegionResults", Post, o)]_vars

\* A region whose first result was tied beforehand and whose second result
\* has been tied, through the dispatch in its body, to operand 1.
C14_SecondResultTiedThroughDispatch ==
  /\ last.pat = "TieRegionResults" /\ last.ok
  /\ ops[last.op].tied = <<2, 1>>
  /\ ops[Terminator(Cur, Body(last.op))].operands[2] = <<2, 1>>

\* The operand is defined by a resource.subview.
IsSubviewValue(ir, v) == v[1] > 0 /\ ir.ops[v[1]].kind = "resource.subview"

\* C15: CloneCaptured*ExecuteSubviewOps makes every operand i sourced from a
\* subview the subview's source, with the source size as operand size; the
\* entry block starts with a new subview of block argument i with the
\* original source size, offset and result size, which takes over every
\* former use of the block argument and is its only user.  Operands not
\* sourced from a subview are unchanged.
C15_CaptureSubviewCloning ==
  [][Called("CloneCapturedExecuteSubviewOps") =>
       LET o == last'.op
           body == blocks[Body(o)]
           caps == {i \in 1..Len(ops[o].operands) :
                      IsSubviewValue(Cur, ops[o].operands[i])}
           made == Live(Post) \ Live(Cur)
       IN /\ last'.ok <=> caps # {}
          /\ ~last'.ok => Post = Cur
          /\ last'.ok =>
               /\ Cardinality(made) = Cardinality(caps)
               /\ Live(Cur) \subseteq Live(Post)
               /\ SubSeq(blocks'[Body(o)], 1, Cardinality(made))
                    \in [1..Cardinality(made) -> made]
               /\ SubSeq(blocks'[Body(o)], Cardinality(made) + 1,
                         Len(blocks'[Body(o)])) = body
               /\ \A i \in 1..Len(ops[o].operands) :
                    LET sv == ops[ops[o].operands[i][1]]
                    IN IF i \in caps
                       THEN /\ ops'[o].operands[i] = sv.operands[1]
                            /\ ops'[o].attr[i] = sv.attr[1]
                            /\ \E n \in made :
                                 /\ ops'[n].kind = "resource.subview"
                                 /\ ops'[n].operands = <<<<-o, i>>>>
                                 /\ ops'[n].attr = sv.attr
                                 /\ UsesOf(Post, <<-o, i>>) = {<<n, 1>>}
                                 /\ UsesOf(Post, <<n, 1>>) = UsesOf(Cur, <<-o, i>>)
                       ELSE /\ ops'[o].operands[i] = ops[o].operands[i]
                            /\ ops'[o].attr[i] = ops[o].attr[i]
                            /\ UsesOf(Post, <<-o, i>>) = UsesOf(Cur, <<-o, i>>)]_vars

\* Both operands of the region were the same subview: the body now starts
\* with two subviews, one of each block argument, and the region captures
\* the import twice.
C15_TwoSubviewsCloned ==
  /\ last.pat = "CloneCapturedExecuteSubviewOps" /\ last.ok
  /\ ops[last.op].operands = <<<<1, 1>>, <<1, 1>>>>
  /\ ops[last.op].attr = <<MaxSize, MaxSize>>
  /\ Len(blocks[Body(last.op)]) = 4
  /\ ops[blocks[Body(last.op)][1]].operands = <<<<-last.op, 1>>>>
  /\ ops[blocks[Body(last.op)][2]].operands = <<<<-last.op, 2>>>>

\* The first occurrences of the entries of a list, in the order of the list.
RECURSIVE FirstOccurrences(_)
FirstOccurrences(s) ==
  IF s = <<>> THEN <<>>
  ELSE <<Head(s)>>
         \o FirstOccurrences(SelectSeq(Tail(s), LAMBDA x : x # Head(s)))

\* C16: ElideImmediate*ExecuteWaits removes exactly the await_timepoints
\* defined by timepoint.immediate, ElideDuplicate*ExecuteWaits exactly the
\* later repetitions of a timepoint; the remaining entries keep their order,
\* no non-immediate timepoint disappears, and each pattern returns failure
\* when there is nothing to remove.
C16_AwaitListNormalisation ==
  [][(Called("ElideImmediateExecuteWaits") \/ Called("ElideDuplicateExecuteWaits"))
       => LET o == last'.op
              old == ops[o].tps
              wanted == IF last'.pat = "ElideImmediateExecuteWaits"
                        THEN SelectSeq(old, LAMBDA t : ~IsImmediate(Cur, t))
                        ELSE FirstOccurrences(old)
          IN /\ last'.ok <=> wanted # old
             /\ blocks' = blocks
             /\ ops' = [ops EXCEPT ![o].tps = wanted]
             /\ {t \in Range(old) : ~IsImmediate(Cur, t)}
                  \subseteq Range(ops'[o].tps)]_vars

\* A repeated timepoint has been removed from a list whose remaining entries
\* are function argument 12 followed by function argument 11.
C16_DuplicateRemovedOrderKept ==
  /\ last.pat = "ElideDuplicateExecuteWaits" /\ last.ok
  /\ ops[last.op].tps = <<<<0, 12>>, <<0, 11>>>>

\* The timepoints a join waits on that no timepoint.immediate defines.
Joined(ir, o) == {t \in Range(ir.ops[o].tps) : ~IsImmediate(ir, t)}

\* A join has at least two operands, pairwise distinct, none immediate.
JoinNormalForm(ir) ==
  \A o \in Live(ir) :
    ir.ops[o].kind = "timepoint.join" =>
      /\ Len(ir.ops[o].tps) >= 2
      /\ \A i, j \in 1..Len(ir.ops[o].tps) :
           i # j => ir.ops[o].tps[i] # ir.ops[o].tps[j]
      /\ \A t \in Range(ir.ops[o].tps) : ~IsImmediate(ir, t)

\* One successful rewrite of a join: a join without a non-immediate operand
\* is replaced by a timepoint.immediate, a join of one timepoint by that
\* timepoint, and any other join stays, joining the same non-immediate
\* timepoints.
JoinStep ==
  (last' # last /\ last'.ok
     /\ last'.pat \in {"TimepointJoinFold", "ElideImmediateTimepointJoinOperands",
                        "FoldDuplicateTimepointJoinOperands"}) =>
    LET o == last'.op
        users == TpUsesOf(Cur, <<o, 0>>)
    IN IF o \in Live(Post)
       THEN /\ Joined(Post, o) = Joined(Cur, o)
            /\ Len(ops[o].tps) >= 2
            /\ Live(Post) = Live(Cur)
       ELSE IF Joined(Cur, o) = {}
       THEN \E new \in Live(Post) \ Live(Cur) :
              /\ ops'[new] = Immediate
              /\ \A us \in users : ops'[us[1]].tps[us[2]] = <<new, 0>>
       ELSE /\ Len(ops[o].tps) = 1
            /\ Live(Post) = Live(Cur) \ {o}
            /\ \A us \in users : ops'[us[1]].tps[us[2]] = ops[o].tps[1]

\* C17: at the fixed point every remaining timepoint.join has at least two
\* operands, pairwise distinct, none defined by timepoint.immediate; a join
\* whose operands are all immediate (or that has none) is replaced by
\* timepoint.immediate and a join of a single operand by that operand; the
\* rewrites never change the set of non-immediate timepoints joined.
C17_JoinNormalForm ==
  /\ [](Quiescent(Cur) => JoinNormalForm(Cur))
  /\ [][JoinStep]_vars

\* A fixed point with a join of the two function-argument timepoints that
\* the rewrites have left of a longer list.
C17_JoinLeftAtFixedPoint ==
  /\ Quiescent(Cur)
  /\ last.ok
  /\ last.pat \in {"ElideImmediateTimepointJoinOperands",
                    "FoldDuplicateTimepointJoinOperands"}
  /\ last.op \in Live(Cur)
  /\ Range(ops[last.op].tps) = {<<0, 11>>, <<0, 12>>}

\* Two affinities are compatible: both absent, or equal.
Compatible(a, b) == a = b

\* Two awaits that the group-by-timepoint rule merges: in one block, on the
\* same timepoint, with compatible affinities.
Mergeable(ir, a, b) ==
  /\ a # b
  /\ ir.ops[a].kind = "timepoint.await" /\ ir.ops[b].kind = "timepoint.await"
  /\ BlockOf(ir, a) = BlockOf(ir, b)
  /\ ir.ops[a].tps = ir.ops[b].tps
  /\ Compatible(ir.ops[a].aff, ir.ops[b].aff)

\* One call of GroupAwaitsByTimepoint on await o.
GroupStep ==
  Called("GroupAwaitsByTimepoint") =>
    LET o == last'.op
        group == {o} \cup {u \in Live(Cur) :
                             Mergeable(Cur, o, u) /\ Pos(Cur, o) < Pos(Cur, u)}
    IN /\ last'.ok <=> group # {o}
       /\ ~last'.ok => Post = Cur
       /\ last'.ok =>
            \E new \in Live(Post) \ Live(Cur) :
              /\ Live(Post) = (Live(Cur) \ group) \cup {new}
              /\ ops'[new].kind = "timepoint.await"
              /\ ops'[new].tps = ops[o].tps
              /\ ops'[new].aff = ops[o].aff
              /\ BlockOf(Post, new) = BlockOf(Cur, o)
              /\ Len(ops'[new].attr) = Len(ops'[new].operands)
              /\ \A u \in group : \A j \in 1..Len(ops[u].operands) :
                   /\ UsesOf(Post, <<u, j>>) = {}
                   /\ \E k \in 1..Len(ops'[new].operands) :
                        /\ ops'[new].operands[k] = ops[u].operands[j]
                        /\ ops'[new].attr[k] = ops[u].attr[j]
                        /\ ops'[new].tied[k] = k
                        /\ UsesOf(Cur, <<u, j>>) \subseteq UsesOf(Post, <<new, k>>)
              /\ \A u \in Live(Cur) \ group :
                   ops[u].kind = "timepoint.await" => ops'[u] = ops[u]

\* C18: at the fixed point no block holds two timepoint.await ops on the
\* same timepoint with compatible affinities; a merge gives one await on
\* the same timepoint with the first await's affinity, and every use of an
\* old result that passed resource r through uses a result of the merged
\* await that passes r through with the same size; awaits with
\* incompatible affinities or in different blocks are never merged.
C18_GroupByTimepoint ==
  /\ [](Quiescent(Cur) =>
          \A a, b \in Live(Cur) : ~Mergeable(Cur, a, b))
  /\ [][GroupStep]_vars

\* A merge has taken place beside an await on the same timepoint that is
\* still there: it has another affinity or stands in another block.
C18_MergedBesideIncompatible ==
  /\ last.pat = "GroupAwaitsByTimepoint" /\ last.ok
  /\ \E a, b \in Live(Cur) :
       /\ a # b
       /\ ops[a].kind = "timepoint.await" /\ ops[b].kind = "timepoint.await"
       /\ ops[a].tps = ops[b].tps
       /\ Len(ops[a].operands) >= 2
       /\ ops[a].aff # ops[b].aff \/ BlockOf(Cur, a) # BlockOf(Cur, b)

\* C19: FoldDuplicateAwaitResources replaces an await with repeated operands
\* by one whose operands are the distinct resources in first-occurrence
\* order, on the same timepoint and affinity; every use of old result i is
\* rerouted to the new result whose operand equals old operand i; the
\* pattern returns failure when all operands are distinct.
C19_FoldDuplicateAwaitResources ==
  [][Called("FoldDuplicateAwaitResources") =>
       LET o == last'.op
           old == ops[o].operands
           distinct == \A i, j \in 1..Len(old) : old[i] = old[j] => i = j
       IN /\ last'.ok <=> ~distinct
          /\ ~last'.ok => Post = Cur
          /\ last'.ok =>
               \E new \in Live(Post) \ Live(Cur) :
                 /\ Live(Post) = (Live(Cur) \ {o}) \cup {new}
                 /\ ops'[new].kind = "timepoint.await"
                 /\ ops'[new].tps = ops[o].tps
                 /\ ops'[new].aff = ops[o].aff
                 /\ ops'[new].operands = FirstOccurrences(old)
                 /\ blocks' = [b \in BlockKeys |->
                                 [p \in 1..Len(blocks[b]) |->
                                    IF blocks[b][p] = o THEN new
                                    ELSE blocks[b][p]]]
                 /\ \A i \in 1..Len(old) :
                      /\ UsesOf(Post, <<o, i>>) = {}
                      /\ \E k \in 1..Len(ops'[new].operands) :
                           /\ ops'[new].operands[k] = old[i]
                           /\ ops'[new].attr[k] = ops[o].attr[i]
                           /\ UsesOf(Cur, <<o, i>>)
                                \subseteq UsesOf(Post, <<new, k>>)]_vars

\* An await that passed the subview through twice has been replaced by an
\* await of the subview alone, whose one result is returned twice.
C19_TwoResultsFoldedToOne ==
  /\ last.pat = "FoldDuplicateAwaitResources" /\ last.ok
  /\ \E a \in Live(Cur) :
       /\ ops[a].kind = "timepoint.await"
       /\ ops[a].operands = << <<2, 1>> >>
       /\ Cardinality(UsesOf(Cur, <<a, 1>>)) = 2

\* The new subview the step made for result i of await o.
SunkSubviewOf(o, i) ==
  {n \in Live(Post) \ Live(Cur) :
     /\ ops'[n].kind = "resource.subview"
     /\ ops'[n].operands = <<<<o, i>>>>}

\* One call of SinkSubviewsAcrossAwaits on await o, but for the place of the
\* new subviews: each operand i a subview defines becomes the subview's
\* source, with the source size; a new subview with the same sizes and
\* offset reads result i and holds every other former use of result i; the
\* other operands, sizes and results are untouched; the call fails, and
\* changes nothing, iff no operand is defined by a subview.
SubviewsSunk ==
  Called("SinkSubviewsAcrossAwaits") =>
    LET o == last'.op
        subs == {i \in 1..Len(ops[o].operands) :
                   IsSubviewValue(Cur, ops[o].operands[i])}
    IN /\ last'.ok <=> subs # {}
       /\ ~last'.ok => Post = Cur
       /\ last'.ok =>
            /\ Live(Cur) \subseteq Live(Post)
            /\ Cardinality(Live(Post) \ Live(Cur)) = Cardinality(subs)
            /\ \A i \in 1..Len(ops[o].operands) :
                 LET sv == ops[ops[o].operands[i][1]]
                 IN IF i \in subs
                    THEN /\ ops'[o].operands[i] = sv.operands[1]
                         /\ ops'[o].attr[i] = sv.attr[1]
                         /\ \E n \in SunkSubviewOf(o, i) :
                              /\ ops'[n].attr = sv.attr
                              /\ UsesOf(Post, <<o, i>>) = {<<n, 1>>}
                              /\ UsesOf(Post, <<n, 1>>) = UsesOf(Cur, <<o, i>>)
                    ELSE /\ ops'[o].operands[i] = ops[o].operands[i]
                         /\ ops'[o].attr[i] = ops[o].attr[i]
                         /\ UsesOf(Post, <<o, i>>) = UsesOf(Cur, <<o, i>>)

\* Every new subview stands after the await whose result it reads.
SunkAfterAwait ==
  (Called("SinkSubviewsAcrossAwaits") /\ last'.ok) =>
    \A n \in Live(Post) \ Live(Cur) :
      /\ BlockOf(Post, n) = BlockOf(Post, last'.op)
      /\ Pos(Post, last'.op) < Pos(Post, n)

\* C20: SinkSubviewsAcrossAwaits makes each operand i defined by a subview
\* the subview's source, with the source size; a new subview with the same
\* offset and result size takes await result i as its source, is positioned
\* after the await and holds every other former use of result i; other
\* operands are untouched, and without a subview operand the pattern fails
\* with the await unchanged.
C20_SinkSubviewsAcrossAwaits ==
  [][SubviewsSunk /\ SunkAfterAwait]_vars

\* The subview made for an await result stands before that await in the
\* await's block: it reads a value that is not defined yet.
C20_SubviewBeforeItsAwait ==
  /\ last.pat = "SinkSubviewsAcrossAwaits" /\ last.ok
  /\ \E n \in Live(Cur) :
       /\ ops[n].kind = "resource.subview"
       /\ ops[n].operands[1] = <<last.op, 1>>
       /\ BlockOf(Cur, n) = BlockOf(Cur, last.op)
       /\ Pos(Cur, n) < Pos(Cur, last.op)
       /\ ~DominanceHolds(Cur)

-----------------------------------------------------------------------------
(* Subview fusion: the bytes an op accesses.  The value of an index is a   *)
(* linear form: a constant term (at 0) and a coefficient for each index    *)
(* argument of the function.                                               *)

IndexArgs == 1..2

RECURSIVE IndexValue(_, _)
IndexValue(ir, x) ==
  IF x >= 0 THEN [k \in {0} \cup IndexArgs |-> IF k = 0 THEN x ELSE 0]
  ELSE IF x < -MaxOps
  THEN [k \in {0} \cup IndexArgs |-> IF k = -x - MaxOps THEN 1 ELSE 0]
  ELSE LET lhs == IndexValue(ir, ir.ops[-x].attr[1])
           rhs == IndexValue(ir, ir.ops[-x].attr[2])
       IN [k \in {0} \cup IndexArgs |-> lhs[k] + rhs[k]]

SumOf(a, b) == [k \in {0} \cup IndexArgs |-> a[k] + b[k]]

\* The range of bytes, in the resource that is no subview, that length bytes
\* at offset (a linear form) of value v are.
RECURSIVE RootRange(_, _, _, _)
RootRange(ir, v, offset, length) ==
  IF IsSubviewValue(ir, v)
  THEN RootRange(ir, ir.ops[v[1]].operands[1],
                 SumOf(IndexValue(ir, ir.ops[v[1]].attr[2]), offset), length)
  ELSE [resource |-> v, offset |-> offset, length |-> length]

\* The number of subviews between v and the resource that is no subview.
RECURSIVE SubviewLevels(_, _)
SubviewLevels(ir, v) ==
  IF IsSubviewValue(ir, v)
  THEN 1 + SubviewLevels(ir, ir.ops[v[1]].operands[1])
  ELSE 0

\* The range a load or store accesses.
AccessOf(ir, o) ==
  RootRange(ir, ir.ops[o].operands[1],
            IndexValue(ir, ir.ops[o].attr[1][2]), ir.ops[o].attr[1][3])

\* The range a subview is.
ViewOf(ir, o) ==
  RootRange(ir, <<o, 1>>, IndexValue(ir, 0), ir.ops[o].attr[3])

LoadStoreFused ==
  \A pat \in {"FoldSubviewIntoLoadOp", "FoldSubviewIntoStoreOp"} :
    Called(pat) =>
      LET o == last'.op
          v == ops[o].operands[1]
      IN IF IsSubviewValue(Cur, v)
         THEN /\ last'.ok
              /\ ops'[o].operands[1] = ops[v[1]].operands[1]
              /\ ops'[o].attr[1][1] = ops[v[1]].attr[1]
              /\ IndexValue(Post, ops'[o].attr[1][2])
                   = SumOf(IndexValue(Cur, ops[v[1]].attr[2]),
                           IndexValue(Cur, ops[o].attr[1][2]))
              /\ ops'[o].attr[1][3] = ops[o].attr[1][3]
              /\ AccessOf(Post, o) = AccessOf(Cur, o)
              /\ SubviewLevels(Post, ops'[o].operands[1])
                   = SubviewLevels(Cur, v) - 1
         ELSE ~last'.ok /\ Post = Cur

SubviewsFused ==
  Called("FoldResourceSubviewOps") =>
    LET o == last'.op
        v == ops[o].operands[1]
    IN IF IsSubviewValue(Cur, v)
       THEN /\ last'.ok
            /\ o \notin Live(Post)
            /\ \E n \in Live(Post) \ Live(Cur) :
                 /\ ops'[n].kind = "resource.subview"
                 /\ ops'[n].operands[1] = ops[v[1]].operands[1]
                 /\ ops'[n].attr[1] = ops[v[1]].attr[1]
                 /\ IndexValue(Post, ops'[n].attr[2])
                      = SumOf(IndexValue(Cur, ops[v[1]].attr[2]),
                              IndexValue(Cur, ops[o].attr[2]))
                 /\ ops'[n].attr[3] = ops[o].attr[3]
                 /\ ViewOf(Post, n) = ViewOf(Cur, o)
                 /\ SubviewLevels(Post, <<n, 1>>)
                      = SubviewLevels(Cur, <<o, 1>>) - 1
                 /\ UsesOf(Post, <<n, 1>>) = UsesOf(Cur, <<o, 1>>)
       ELSE ~last'.ok /\ Post = Cur

\* C21: folding a subview(src, srcSize, o, n) into a resource.load, a
\* resource.store or a resource.subview that references it at offset f makes
\* the op reference src with the size srcSize at the offset o + f, with the
\* same length or result size: the bytes of the underlying resource that it
\* reads, writes or views are the same as before, and the op is one subview
\* less away from that resource; a subview of a subview becomes one subview
\* of the inner source.  On an operand that is no subview the pattern fails.
C21_SubviewFusionKeepsRange ==
  [][LoadStoreFused /\ SubviewsFused]_vars

\* A load or store of the import itself, at an offset that took two
\* additions: both subviews between it and the import were folded into it.
C21_TwoLevelsFolded ==
  /\ last.pat \in {"FoldSubviewIntoLoadOp", "FoldSubviewIntoStoreOp"}
  /\ last.ok
  /\ ops[last.op].operands[1] = <<1, 1>>
  /\ created = 2

-----------------------------------------------------------------------------
(* Subview folding into the commands of an execution region                *)

CmdFoldPatterns ==
  {"FoldSubviewsIntoCmdFlushOp", "FoldCmdInSubviewsIntoCmdInvalidateOp",
   "FoldCmdSubviewsIntoCmdDiscardOp", "FoldSubviewsIntoCmdFillOp",
   "FoldSubviewsIntoCmdCopyOp", "FoldCmdSubviewsIntoCmdDispatchOp"}

\* The execute op whose region, directly or through nested regions, holds o.
RECURSIVE EnclosingExecute(_, _)
EnclosingExecute(ir, o) ==
  LET b == BlockOf(ir, o)
  IN IF b <= NBlocks THEN 0
     ELSE IF ir.ops[b - NBlocks].kind \in {"async.execute", "cmd.execute"}
     THEN b - NBlocks
     ELSE EnclosingExecute(ir, b - NBlocks)

\* The index value x is defined at a point that dominates op o: a constant
\* or an argument of the function, or the result of an op that properly
\* dominates o.
IndexDominates(ir, x, o) ==
  \/ x >= 0
  \/ x < -MaxOps
  \/ -x \in Live(ir) /\ ProperlyDominates(ir, -x, o)

\* Every op the step created is an addition that stands before the execute
\* op e in e's block, with only ops of the step between it and e.
AdditionsBeforeExecute(e) ==
  \A n \in Live(Post) \ Live(Cur) :
    /\ ops'[n].kind = "arith.addi"
    /\ BlockOf(Post, n) = BlockOf(Post, e)
    /\ Pos(Post, n) < Pos(Post, e)
    /\ \A m \in Range(blocks'[BlockOf(Post, e)]) :
         (Pos(Post, n) < Pos(Post, m) /\ Pos(Post, m) < Pos(Post, e))
           => m \notin Live(Cur)

\* Both addends of every addition the step created are defined at points
\* that dominate the addition.
AddendsDominate ==
  \A n \in Live(Post) \ Live(Cur) :
    /\ IndexDominates(Post, ops'[n].attr[1], n)
    /\ IndexDominates(Post, ops'[n].attr[2], n)

\* Resource i of the command: folded if it was a subview, untouched if not.
ResourceFolded(o, i) ==
  LET v == ops[o].operands[i]
  IN IF IsSubviewValue(Cur, v)
     THEN /\ ops'[o].operands[i] = ops[v[1]].operands[1]
          /\ ops'[o].attr[i][1] = ops[v[1]].attr[1]
          /\ IndexValue(Post, ops'[o].attr[i][2])
               = SumOf(IndexValue(Cur, ops[v[1]].attr[2]),
                       IndexValue(Cur, ops[o].attr[i][2]))
          /\ ops'[o].attr[i][3] = ops[o].attr[i][3]
     ELSE /\ ops'[o].operands[i] = v
          /\ ops'[o].attr[i] = ops[o].attr[i]

CmdSubviewsFolded ==
  \A pat \in CmdFoldPatterns :
    Called(pat) =>
      LET o == last'.op
      IN /\ last'.ok <=> \E i \in 1..Len(ops[o].operands) :
                           IsSubviewValue(Cur, ops[o].operands[i])
         /\ last'.ok =>
              /\ EnclosingExecute(Cur, o) # 0
              /\ AdditionsBeforeExecute(EnclosingExecute(Cur, o))
              /\ \A i \in 1..Len(ops[o].operands) : ResourceFolded(o, i)
         /\ ~last'.ok => Post = Cur

\* C22: folding subviews into a cmd.* op inside an execution region creates
\* the offset additions immediately before the enclosing execute op, outside
\* its region, and both addends of each addition are defined at points that
\* dominate it; source and target of a cmd.copy are folded independently,
\* and of a cmd.dispatch exactly the resources that are subviews change.
C22_CmdFoldAddsOutsideRegion ==
  [][CmdSubviewsFolded
       /\ (\A pat \in CmdFoldPatterns :
             (Called(pat) /\ last'.ok) => AddendsDominate)]_vars

\* An addition before the execute op reads the result of an addition that
\* is inside the region of that execute op.
C22_AddendInsideRegion ==
  /\ last.pat \in CmdFoldPatterns /\ last.ok
  /\ \E n \in Live(Cur) :
       /\ ops[n].kind = "arith.addi"
       /\ BlockOf(Cur, n) <= NBlocks
       /\ \E i \in 1..2 :
            /\ ops[n].attr[i] < 0 /\ ops[n].attr[i] >= -MaxOps
            /\ BlockOf(Cur, -ops[n].attr[i]) > NBlocks

-----------------------------------------------------------------------------
(* Sinking                                                                 *)

SinkPatterns == {"SinkSplatsToConsumers", "SinkAwaitToFirstConsumer"}

\* Op o stands where its operands are defined and all uses of its results
\* come after it.
LegallyPlaced(ir, o) ==
  /\ \A v \in OperandsOf(ir.ops[o]) : Dominates(ir, v, o)
  /\ \A v \in Results(ir, o) :
       \A u \in UsersOf(ir, v) : ProperlyDominates(ir, o, u)

\* C23: when SinkSplatsToConsumers or SinkAwaitToFirstConsumer moves an op
\* of an IR in which every value dominates its uses, all operands of the
\* moved op dominate its new position and the new position dominates every
\* use of every result of the op; nothing but the position of the op
\* changes.
C23_SinkingIsLegal ==
  [][\A pat \in SinkPatterns :
       (Called(pat) /\ last'.ok /\ DominanceHolds(Cur)) =>
         /\ LegallyPlaced(Post, last'.op)
         /\ DominanceHolds(Post)
         /\ ops' = ops
         /\ Detach(Post, last'.op) = Detach(Cur, last'.op)]_vars

\* An op was moved out of the entry block into a successor block, where all
\* its users are.
C23_SunkIntoSuccessorBlock ==
  /\ last.pat \in SinkPatterns /\ last.ok
  /\ BlockOf(Cur, last.op) \in 2..NBlocks
  /\ UsersOf(Cur, <<last.op, 1>>) # {}
  /\ DominanceHolds(Cur)

-----------------------------------------------------------------------------
(* CombineSliceUpdateFromToCopy                                            *)

\* The update operand of update o is a slice in the block of o, the target
\* has a defining op in that block, and Placed(slice, targetDefOp) holds.
SliceUpdateFrom(ir, o, Placed(_, _)) ==
  LET target == ir.ops[o].operands[1]
      update == ir.ops[o].operands[2]
  IN /\ DefinedBy(ir, update, "async.slice")
     /\ BlockOf(ir, update[1]) = BlockOf(ir, o)
     /\ target[1] > 0
     /\ BlockOf(ir, target[1]) = BlockOf(ir, o)
     /\ Placed(update[1], target[1])

\* The op that took the place of update o is a copy of the slice's range of
\* the slice's source into the update's range of the target.
IsCopyOfSlice(o) ==
  LET u == ops[o]
      sliceOp == ops[u.operands[2][1]]
      new == {i \in Live(Post) \ Live(Cur) : Post.ops[i].kind = "async.copy"}
  IN /\ o \notin Live(Post)
     /\ \E i \in new :
          /\ Post.ops[i].operands = <<u.operands[1], sliceOp.operands[1]>>
          /\ Post.ops[i].attr = <<u.attr[1], u.attr[2], u.attr[3]>> \o sliceOp.attr
          /\ Post.ops[i].tied = u.tied /\ Post.ops[i].aff = u.aff
          /\ UsesOf(Post, <<i, 1>>) = UsesOf(Cur, <<o, 1>>)

CombinedWhen(Placed(_, _)) ==
  Called("CombineSliceUpdateFromToCopy") =>
    /\ last'.ok <=> SliceUpdateFrom(Cur, last'.op, Placed)
    /\ last'.ok => IsCopyOfSlice(last'.op)
    /\ ~last'.ok => Post = Cur

\* C24: an update from a slice becomes a copy of the slice's range of the
\* slice's source only if slice, target definition and update are in one
\* block and the slice comes after the op defining the target; otherwise the
\* update is left unchanged.
C24_CopyOnlyIfSliceAfterTarget ==
  [][CombinedWhen(LAMBDA s, t : IsBeforeInBlock(Cur, t, s))]_vars

\* What the code does: the slice need only not come before the op defining
\* the target, which lets through a slice that is itself that op.
CopyOnlyIfSliceNotBeforeTarget ==
  [][CombinedWhen(LAMBDA s, t : ~IsBeforeInBlock(Cur, s, t))]_vars

\* C24: an update whose target is the very slice it updates from has been
\* turned into a copy.
C24_SliceIsItsOwnTarget ==
  /\ last.pat = "CombineSliceUpdateFromToCopy" /\ last.ok
  /\ \E i \in Live(Cur) :
       /\ ops[i].kind = "async.copy"
       /\ DefinedBy(Cur, ops[i].operands[1], "async.slice")
       /\ ops[ops[i].operands[1][1]].operands[1] = ops[i].operands[2]

-----------------------------------------------------------------------------
(* Clone / slice propagation                                               *)

ChainKinds == {"async.clone", "async.slice"}

\* The number of clones and slices a value is reached through.
RECURSIVE ChainDepth(_, _)
ChainDepth(ir, v) ==
  IF v[1] > 0 /\ ir.ops[v[1]].kind \in ChainKinds
  THEN 1 + ChainDepth(ir, ir.ops[v[1]].operands[1])
  ELSE 0

RECURSIVE SumOfDepths(_, _)
SumOfDepths(ir, S) ==
  IF S = {} THEN 0
  ELSE LET o == CHOOSE x \in S : TRUE
       IN ChainDepth(ir, <<o, 1>>) + SumOfDepths(ir, S \ {o})

\* The total depth of the clone and slice chains of the IR.
ChainMeasure(ir) ==
  SumOfDepths(ir, {o \in Live(ir) : ir.ops[o].kind \in ChainKinds})

PropagationPatterns == {"PropagateClonedSlices", "PropagateSliceClones"}

IsPropagation ==
  last' # last /\ last'.pat \in PropagationPatterns /\ last'.ok

\* The step replaced op o by exactly one new op, a slice of source with the
\* given type, affinity and index operands, which took over o's uses.
ReplacedBySlice(o, source, life, aff, attr) ==
  LET new == Live(Post) \ Live(Cur)
  IN /\ Live(Cur) \ Live(Post) = {o}
     /\ Cardinality(new) = 1
     /\ \A i \in new :
          /\ Post.ops[i] = AsyncSlice(source, life, aff, attr)
          /\ UsesOf(Post, <<i, 1>>) = UsesOf(Cur, <<o, 1>>)
          /\ Pos(Post, i) = Pos(Cur, o) /\ BlockOf(Post, i) = BlockOf(Cur, o)

\* PropagateClonedSlices replaces a clone of a slice by a slice of the
\* slice's source; PropagateSliceClones replaces a slice of a clone by a
\* slice of the clone's source.
PropagationShape ==
  IsPropagation =>
    LET o == last'.op
        src == ops[ops[o].operands[1][1]]
    IN IF last'.pat = "PropagateClonedSlices"
       THEN /\ ops[o].kind = "async.clone" /\ src.kind = "async.slice"
            /\ ReplacedBySlice(o, src.operands[1], ops[o].life[1], ops[o].aff,
                               src.attr)
       ELSE /\ ops[o].kind = "async.slice" /\ src.kind = "async.clone"
            /\ ReplacedBySlice(o, src.operands[1], ops[o].life[1], ops[o].aff,
                               <<CloneSourceSize(src, ops[o].attr[1])>>
                                 \o SubSeq(ops[o].attr, 2, 4))

\* No step of any pattern takes a slice away and brings a clone in.
NoSliceBecomesClone ==
  (\E o \in Live(Cur) \ Live(Post) : ops[o].kind = "async.slice") =>
    ~\E i \in Live(Post) \ Live(Cur) : Post.ops[i].kind = "async.clone"

\* C25: clone/slice propagation cannot oscillate: each of the two rewrites
\* replaces a clone by a slice or re-sources a slice past a clone, no pattern
\* turns a slice into a clone, and every such rewrite strictly shortens the
\* clone and slice chains of the IR, so that no sequence of them comes back
\* to an earlier IR.
C25_PropagationCannotOscillate ==
  [][/\ PropagationShape
     /\ NoSliceBecomesClone
     /\ IsPropagation => ChainMeasure(Post) < ChainMeasure(Cur)]_vars

\* C25: both rewrites have been applied to one chain: every slice left reads
\* the imported value directly.
C25_BothPropagationsApplied ==
  /\ last.pat = "PropagateClonedSlices" /\ last.ok
  /\ created >= 2
  /\ Cardinality({o \in Live(Cur) : ops[o].kind = "async.slice"}) >= 2
  /\ \A o \in Live(Cur) :
       ops[o].kind \in ChainKinds =>
         ops[o].kind = "async.slice" /\ ops[o].operands[1] = <<1, 1>>
  /\ \E o \in Live(Cur) : ops[o].kind = "async.dispatch"

-----------------------------------------------------------------------------
(* PropagateClonableOps                                                    *)

\* Op i stands before op owner in its block with nothing but ops of S
\* between them.
JustBefore(ir, i, owner, S) ==
  /\ BlockOf(ir, i) = BlockOf(ir, owner)
  /\ Pos(ir, i) < Pos(ir, owner)
  /\ \A p \in (Pos(ir, i) + 1)..(Pos(ir, owner) - 1) :
       ir.blocks[BlockOf(ir, owner)][p] \in S

ClonableOpsPropagated(o) ==
  LET src == ops[o].operands[1][1]
      uses == UsesOf(Cur, <<o, 1>>)
      new == Live(Post) \ Live(Cur)
  IN /\ Cardinality(new) = Cardinality(uses)
     /\ \A us \in uses : \E i \in new :
          /\ Post.ops[i] = ops[src]
          /\ UsesOf(Post, <<i, 1>>) = {us}
          /\ JustBefore(Post, i, us[1], new)
     /\ Live(Cur) \ Live(Post) = {o}
     /\ Post.ops[src] = ops[src]
     /\ Pos(Post, src) = Pos(Cur, src) /\ BlockOf(Post, src) = BlockOf(Cur, src)
     /\ UsesOf(Post, <<src, 1>>) = UsesOf(Cur, <<src, 1>>) \ {<<o, 1>>}
     /\ \A j \in Live(Cur) \ ({o} \cup {us[1] : us \in uses}) :
          Post.ops[j] = ops[j]

\* C26: PropagateClonableOps succeeds iff the clone has a use and the
\* producer of its source prefers to be cloned to its consumers; it then
\* puts one copy of the producer immediately before the owner of each use of
\* the clone and points the use at it, erases the clone, and leaves the
\* producer and its other uses as they were; otherwise it fails and changes
\* nothing.
C26_ClonableProducerCopiedPerUse ==
  [][Called("PropagateClonableOps") =>
       LET o == last'.op
           src == ops[o].operands[1]
       IN /\ last'.ok <=> /\ UsesOf(Cur, <<o, 1>>) # {}
                          /\ src[1] > 0
                          /\ PreferCloneToConsumers(ops[src[1]])
          /\ last'.ok => ClonableOpsPropagated(o)
          /\ ~last'.ok => Post = Cur]_vars

\* C26: a clone of a splat with two uses went: each of two dispatches reads
\* its own copy of the splat.
C26_TwoUsesTwoCopies ==
  /\ last.pat = "PropagateClonableOps" /\ last.ok
  /\ created >= 2
  /\ ~\E o \in Live(Cur) : ops[o].kind = "async.clone"
  /\ \E d1 \in Live(Cur) : \E d2 \in Live(Cur) \ {d1} :
       /\ ops[d1].kind = "async.dispatch" /\ ops[d2].kind = "async.dispatch"
       /\ DefinedBy(Cur, ops[d1].operands[1], "async.splat")
       /\ DefinedBy(Cur, ops[d2].operands[1], "async.splat")
       /\ ops[d1].operands[1] # ops[d2].operands[1]
       /\ UsesOf(Cur, ops[d1].operands[1]) = {<<d1, 1>>}
       /\ UsesOf(Cur, ops[d2].operands[1]) = {<<d2, 1>>}

-----------------------------------------------------------------------------
(* Timepoint ordering across execute elision                               *)

\* Timepoint v is reached only after timepoint tp: it is tp, or the result
\* of an op that waits on a timepoint reached only after tp.
RECURSIVE OrderedAfter(_, _, _)
OrderedAfter(ir, v, tp) ==
  \/ v = tp
  \/ /\ v[1] > 0
     /\ \E t \in Range(ir.ops[v[1]].tps) : OrderedAfter(ir, t, tp)

\* The timepoints execute op o waits on that no timepoint.immediate defines.
PendingWaits(ir, o) == {t \in Range(ir.ops[o].tps) : ~IsImmediate(ir, t)}

\* C28: eliding an execute op keeps timepoint order: the op does not wait on
\* a timepoint that is not immediate, and every consumer of its result
\* timepoint is still ordered after each timepoint the op waited on.
C28_ElisionKeepsTimepointOrder ==
  [][Called("ElideNoOpExecuteOp") /\ last'.ok =>
       LET o == last'.op
       IN /\ PendingWaits(Cur, o) = {}
          /\ \A tp \in PendingWaits(Cur, o) :
               \A us \in TpUsesOf(Cur, <<o, 0>>) :
                 OrderedAfter(Post, Post.ops[us[1]].tps[us[2]], tp)]_vars

\* C28: an execute op has been elided and the timepoint.immediate that took
\* its place is consumed.
C28_ImmediateConsumedAfterElision ==
  /\ last.pat = "ElideNoOpExecuteOp" /\ last.ok
  /\ \E i \in Live(Cur) :
       /\ ops[i].kind = "timepoint.immediate"
       /\ TpUsesOf(Cur, <<i, 0>>) # {}

-----------------------------------------------------------------------------
(* PropagateResourcePackBaseOffset                                         *)

\* The pack o of the step has lost its offset and nothing else.
OffsetStripped(o) == Post.ops[o] = [ops[o] EXCEPT !.attr[1] = <<>>]

\* For slice k one addition base + packed offset stands k ops after the
\* pack; it alone reads the packed offset, and what read the packed offset
\* reads the sum.
OffsetPropagated(o, baseOffset, k) ==
  \E a \in Live(Post) \ Live(Cur) :
    /\ Post.ops[a] = AddI(baseOffset, PackResult(o, k + 1))
    /\ BlockOf(Post, a) = BlockOf(Post, o)
    /\ Pos(Post, a) = Pos(Post, o) + k
    /\ IndexUsesOf(Post, PackResult(o, k + 1)) = {<<a, 2>>}
    /\ IndexUsesOf(Post, -a) = IndexUsesOf(Cur, PackResult(o, k + 1))

BaseOffsetPropagated(o) ==
  LET baseOffset == PackOffset(ops[o])[1]
      n == Len(PackSlices(ops[o]))
  IN /\ OffsetStripped(o)
     /\ Live(Cur) \subseteq Live(Post)
     /\ IF baseOffset = 0
        THEN Post = IR([ops EXCEPT ![o] = Post.ops[o]], blocks)
        ELSE /\ Cardinality(Live(Post) \ Live(Cur)) = n
             /\ \A k \in 1..n : OffsetPropagated(o, baseOffset, k)
             /\ IndexUsesOf(Post, PackResult(o, 1))
                  = IndexUsesOf(Cur, PackResult(o, 1))
             /\ \A j \in Live(Cur) \ {o} :
                  /\ Post.ops[j].kind = ops[j].kind
                  /\ Post.ops[j].operands = ops[j].operands
                  /\ IndexSlots(ops[j]) = {} => Post.ops[j] = ops[j]

\* C29: PropagateResourcePackBaseOffset fails on a pack without a base
\* offset and changes nothing; on a pack with one it removes the offset, and
\* unless the offset is the constant 0 it creates after the pack, for every
\* packed offset, the sum of base and packed offset and sends every other
\* use of the packed offset to the sum; total_length keeps its uses.  The
\* pack it leaves has no offset, so it does not fire on it again.
C29_BaseOffsetPropagatedOnce ==
  [][Called("PropagateResourcePackBaseOffset") =>
       LET o == last'.op
       IN /\ last'.ok <=> PackOffset(ops[o]) # <<>>
          /\ last'.ok => BaseOffsetPropagated(o)
          /\ ~last'.ok => Post = Cur]_vars

\* C29: a base offset that is not 0 has been propagated to two packed
\* offsets, one of them read by a subview through its sum.
C29_TwoOffsetsPropagated ==
  /\ last.pat = "PropagateResourcePackBaseOffset" /\ last.ok
  /\ \E p \in Live(Cur) : \E a \in Live(Cur) : \E b \in Live(Cur) \ {a} :
       /\ ops[p].kind = "resource.pack" /\ PackOffset(ops[p]) = <<>>
       /\ ops[a].kind = "arith.addi" /\ ops[a].attr[2] = PackResult(p, 2)
       /\ ops[b].kind = "arith.addi" /\ ops[b].attr[2] = PackResult(p, 3)
       /\ ops[a].attr[1] = ops[b].attr[1] /\ ops[a].attr[1] # 0
       /\ \E v \in Live(Cur) :
            ops[v].kind = "resource.subview" /\ ops[v].attr[2] = -a

-----------------------------------------------------------------------------
(* CanonicalizeResourcePackIntervals                                       *)

\* No slice is followed by a smaller one.
Ascending(slices) ==
  \A i \in 1..Len(slices) : \A j \in (i + 1)..Len(slices) :
    ~SliceLess(slices[j], slices[i])

SlicePermutations(n) ==
  {f \in [1..n -> 1..n] : \A i \in 1..n : \A j \in 1..n : f[i] = f[j] => i = j}

\* Pack newOp holds the slices of pack o in the order perm: sorted, equal
\* slices in their stored order, each with its interval and size, each new
\* packed offset read by what read the old packed offset of the same slice.
RebuiltSorted(o, newOp, perm) ==
  LET old == PackSlices(ops[o])
      new == PackSlices(Post.ops[newOp])
      n == Len(old)
  IN /\ Post.ops[newOp].kind = "resource.pack" /\ Len(new) = n
     /\ PackOffset(Post.ops[newOp]) = PackOffset(ops[o])
     /\ Post.ops[newOp].aff = ops[o].aff
     /\ \A i \in 1..n : new[i] = old[perm[i]]
     /\ Ascending(new)
     /\ \A i \in 1..n : \A j \in (i + 1)..n :
          ~SliceLess(new[i], new[j]) => perm[i] < perm[j]
     /\ \A i \in 1..n :
          IndexUsesOf(Post, PackResult(newOp, i + 1))
            = IndexUsesOf(Cur, PackResult(o, perm[i] + 1))
     /\ IndexUsesOf(Post, PackResult(newOp, 1))
          = IndexUsesOf(Cur, PackResult(o, 1))
     /\ BlockOf(Post, newOp) = BlockOf(Cur, o)
     /\ Pos(Post, newOp) = Pos(Cur, o)

\* C30: CanonicalizeResourcePackIntervals succeeds iff the stored slices are
\* not in ascending order; it then replaces the pack by one with the same
\* slices stably sorted, the same offset and affinity, and the uses of
\* total_length and of each slice's packed offset carried over; on a pack in
\* sorted order, the one it has just built included, it fails and changes
\* nothing.
C30_PackIntervalsSortedStably ==
  [][Called("CanonicalizeResourcePackIntervals") =>
       LET o == last'.op
       IN /\ last'.ok <=> ~Ascending(PackSlices(ops[o]))
          /\ last'.ok =>
               /\ Live(Cur) \ Live(Post) = {o}
               /\ Cardinality(Live(Post) \ Live(Cur)) = 1
               /\ \A newOp \in Live(Post) \ Live(Cur) :
                    /\ \E perm \in SlicePermutations(Len(PackSlices(ops[o]))) :
                         RebuiltSorted(o, newOp, perm)
                    /\ ~CanonicalizeResourcePackIntervalsMatch(Post, newOp)
          /\ ~last'.ok => Post = Cur]_vars

\* C30: a pack of three slices whose last was the smallest and whose first
\* two were equal has been rebuilt: the last slice leads, the equal ones
\* follow in their stored order.
C30_TiedSlicesKeepOrder ==
  /\ last.pat = "CanonicalizeResourcePackIntervals" /\ last.ok
  /\ \E p \in Live(Cur) :
       /\ ops[p].kind = "resource.pack" /\ Len(PackSlices(ops[p])) = 3
       /\ PackSlices(ops[p])[1][3] = SliceSize(3)
       /\ PackSlices(ops[p])[2] = <<1, 2, SliceSize(1)>>
       /\ PackSlices(ops[p])[3] = <<1, 2, SliceSize(2)>>
       /\ IndexUsesOf(Cur, PackResult(p, 3)) # {}

-----------------------------------------------------------------------------
(* Failure leaves the IR alone                                             *)

\* C27: a matchAndRewrite call that returns failure leaves the IR exactly as
\* it found it: no op created, erased or moved, no operand, attribute or tie
\* changed.
C27_FailureLeavesIRUnchanged ==
  [][last' # last /\ ~last'.ok =>
       /\ ops' = ops
       /\ blocks' = blocks
       /\ created' = created]_vars

\* C27: SinkSubviewsAcrossAwaits has gone over the operands of an await,
\* found no subview and cancelled its root update.
C27_RootUpdateCancelled ==
  /\ last.pat = "SinkSubviewsAcrossAwaits" /\ ~last.ok
  /\ last.op \in Live(Cur)
  /\ Len(ops[last.op].operands) >= 2

====
